---------------------------- MODULE Spec2Model ----------------------------
(***************************************************************************)
(* A model of go-taglib: the host side (Go) that opens sandboxed sessions  *)
(* of the TagLib WASM guest, marshals arguments into the guest's linear    *)
(* memory, calls an export and decodes its result, and the guest exports   *)
(* of taglib.cpp.                                                          *)
(*                                                                         *)
(* Strings are sequences of characters.  TAB separates key and value in a  *)
(* row, VT separates the values of one key in a written row.               *)
(*                                                                         *)
(* The module holds several specifications over one set of variables:      *)
(*   SpecTags    the stateless API (WriteTags, ReadTags, ReadProperties)   *)
(*               as whole calls over the files on disk.                    *)
(*   SpecSession the stateless API step by step, run by several processes: *)
(*               getRuntimeOnce, newModule, module.call, module.close.     *)
(*   SpecApi     the same steps for all five functions that open a        *)
(*               session (with Open, OpenReadonly, File.Close), over a     *)
(*               valid and an invalid file, with faults raised by the guest*)
(*   SpecHandle  the handle mode: operations of several processes on the   *)
(*               one instance LoadBinary created, under stk.mu and mstk.mu.*)
(*   SpecCache   successive runs of a program: the cache directory of       *)
(*               getRuntimeOnce and what CompileModule finds in it.        *)
(*   SpecCodec   the marshalling layer as functions: the scalar words and  *)
(*               the argument loop of module.call, the row loop of ReadTags*)
(*   SpecFile    the handle mode: New and File.Close over the FileRef      *)
(*               objects of the guest.                                     *)
(*   SpecMemory  makeStrings, readString and readStrings loop by loop on a *)
(*               linear memory with 32-bit addresses.                      *)
(* SpecHandleFair and SpecMemoryFair add the fairness of the running       *)
(* goroutine for the liveness properties.                                  *)
(***************************************************************************)
EXTENDS Integers, Sequences, FiniteSets, TLC

VARIABLES
  disk,     \* path -> the file: recognised as audio?, its tags, its audio words
  wr,       \* the WriteTags call that completed last, with its arguments
  rd,       \* the read call that completed last, after wr
  nw        \* the number of WriteTags calls so far

VARIABLES
  pc,       \* process -> where it is in its API call
  call,     \* process -> the API call it runs: function and path
  once,     \* the sync.OnceValues of getRuntimeOnce: done, lock holder, result
  initRuns, \* how often the body of getRuntimeOnce has been started
  seen,     \* process -> what getRuntimeOnce returned to it
  insts,    \* instance id -> the session: mounts, heap blocks, result memory
  sess,     \* process -> the instance newModule returned to it (0: none)
  ret,      \* process -> what its API call returned
  ncalls    \* the number of API calls started

VARIABLES
  hp,       \* process -> where it is in its operation on the shared instance
  stk,      \* the stack of the operations: its mutex and its tracked pointers
  mstk,     \* the stack of malloc and free: its mutex
  hheap,    \* the allocated blocks of the guest heap of the shared instance
  running   \* the export invocations in progress: process and export name

varsTags == <<wr, rd, nw>>
varsSession == <<pc, call, once, initRuns, seen, insts, sess, ret, ncalls>>
varsHandle == <<hp, stk, mstk, hheap, running>>

\* successive runs of a program that uses the package
VARIABLES
  tmp,      \* directory name -> what the directory under os.TempDir() holds
  run       \* the run in progress: its binary, its cache directory, its phase

varsCache == <<tmp, run>>

\* the functions of the marshalling layer, applied to one input each
VARIABLES
  op        \* the function applied last, its input and its result

varsCodec == <<op>>

\* the handle mode: the files New has opened
VARIABLES
  gfiles,   \* guest address -> the FileRef allocated there: live?, null?, deletes
  fl        \* process -> where it is in New or Close, and the File it holds

varsFile == <<gfiles, fl>>

\* the decoders and encoders of module, loop by loop, on a linear memory
VARIABLES
  gm,       \* the linear memory of the instance: its size and its bytes
  dec       \* the decoder: its function, its loop variables, its result

varsMemory == <<gm, dec>>
vars == <<disk, varsTags, varsSession, varsHandle, varsCache, varsCodec, varsFile, varsMemory>>

---------------------------------------------------------------------------
(* Characters and strings *)

TAB == "\t"
VT == "<VT>"

\* the most WriteTags calls in one behaviour
MaxWrites == 2

Keys == {<<"A">>, <<"B">>}
\* std::map iterates its keys in order
KeyOrder == << <<"A">>, <<"B">> >>

\* strings.Index / TagLib::String::find of one character: 0-based, -1 if absent
Find(s, c) ==
  IF \E i \in 1..Len(s) : s[i] = c
  THEN (CHOOSE i \in 1..Len(s) : s[i] = c /\ \A j \in 1..(i - 1) : s[j] # c) - 1
  ELSE -1

\* strings.Cut(row, "\t")
Cut(row) ==
  LET i == Find(row, TAB)
  IN IF i < 0
     THEN [k |-> row, v |-> <<>>, ok |-> FALSE]
     ELSE [k |-> SubSeq(row, 1, i), v |-> SubSeq(row, i + 2, Len(row)), ok |-> TRUE]

\* a Join that forgets the separator
RECURSIVE JoinNoSep(_)
JoinNoSep(vs) ==
  IF Len(vs) = 0 THEN <<>> ELSE vs[1] \o JoinNoSep(Tail(vs))

\* strings.Join(vs, "\v")
RECURSIVE Join(_)
Join(vs) ==
  IF Len(vs) = 0 THEN <<>>
  ELSE IF Len(vs) = 1 THEN vs[1]
  ELSE vs[1] \o <<VT>> \o Join(Tail(vs))

\* TagLib::String::split("\v"): the pieces between separators; the piece after
\* the last separator is dropped when it is empty and is not the only piece
RECURSIVE SplitFrom(_, _)
SplitFrom(s, acc) ==
  LET sep == Find(s, VT)
  IN IF sep < 0
     THEN IF Len(acc) = 0 \/ Len(s) > 0 THEN Append(acc, s) ELSE acc
     ELSE SplitFrom(SubSeq(s, sep + 2, Len(s)), Append(acc, SubSeq(s, 1, sep)))

Split(s) == SplitFrom(s, <<>>)

---------------------------------------------------------------------------
(* The guest: taglib.cpp over TagLib's FileRef and PropertyMap *)

\* PropertyMap::erase
Erase(m, k) == [x \in (DOMAIN m) \ {k} |-> m[x]]

\* PropertyMap::replace
Replace(m, k, l) == [x \in (DOMAIN m) \cup {k} |-> IF x = k THEN l ELSE m[x]]

\* PropertyMap::clear
NoProps == [x \in {} |-> <<>>]

\* a row loop that never erases: an empty value is stored as one empty string
ApplyRowNoErase(props, row) ==
  LET ti == Find(row, TAB)
  IN IF ti = -1 THEN props
     ELSE Replace(props, SubSeq(row, 1, ti), Split(SubSeq(row, ti + 2, Len(row))))

\* one row of the loop of taglib_file_write_tags
ApplyRow(props, row) ==
  LET ti == Find(row, TAB)
  IN IF ti = -1 THEN props
     ELSE LET key == SubSeq(row, 1, ti)
              value == SubSeq(row, ti + 2, Len(row))
          IN IF Len(value) = 0
             THEN Erase(props, key)
             ELSE Replace(props, key, Split(value))

RECURSIVE ApplyRows(_, _)
ApplyRows(props, rows) ==
  IF Len(rows) = 0 THEN props
  ELSE ApplyRows(ApplyRow(props, Head(rows)), Tail(rows))

\* the option bits of taglib.cpp
CLEAR == 1
DIFF_SAVE == 2
HasBit(opts, bit) == (opts \div bit) % 2 = 1

\* a guest that ignores CLEAR
StartPropsNoClear(file, opts) == file.props

\* the properties taglib_file_write_tags starts from
StartProps(file, opts) == IF HasBit(opts, CLEAR) THEN NoProps ELSE file.props

\* a guest that ignores DIFF_SAVE
SkipsSaveNever(file, properties, opts) == FALSE

\* whether taglib_file_write_tags returns before setProperties and save
SkipsSave(file, properties, opts) ==
  HasBit(opts, DIFF_SAVE) /\ file.props = properties

\* taglib_file_write_tags(filename, tags, opts); saveOk is the outcome of
\* FileRef::save.  Returns the export's result, the file afterwards and
\* whether save was called.
taglib_file_write_tags(file, rows, opts, saveOk) ==
  IF ~file.valid
  THEN [ret |-> FALSE, file |-> file, saved |-> FALSE]
  ELSE LET properties == ApplyRows(StartProps(file, opts), rows)
       IN IF SkipsSave(file, properties, opts)
          THEN [ret |-> TRUE, file |-> file, saved |-> FALSE]
          ELSE IF saveOk
               THEN [ret |-> TRUE, file |-> [file EXCEPT !.props = properties],
                     saved |-> TRUE]
               ELSE [ret |-> FALSE, file |-> file, saved |-> TRUE]

\* the rows of one key, in the order of its values
RowsOf(k, vs) == [i \in 1..Len(vs) |-> k \o <<TAB>> \o vs[i]]

\* taglib_file_tags(filename): 0 (a null pointer) for a file that is not
\* audio, else the rows of all properties, key by key
RECURSIVE TagRows(_, _)
TagRows(props, i) ==
  IF i > Len(KeyOrder) THEN <<>>
  ELSE (IF KeyOrder[i] \in DOMAIN props
        THEN RowsOf(KeyOrder[i], props[KeyOrder[i]]) ELSE <<>>)
       \o TagRows(props, i + 1)

taglib_file_tags(file) ==
  IF ~file.valid THEN [null |-> TRUE, rows |-> <<>>]
  ELSE [null |-> FALSE, rows |-> TagRows(file.props, 1)]

\* the four bytes of a 32-bit int of the guest in linear memory, lowest byte
\* first (two's complement: \div rounds down and % is never negative)
LE32(v) ==
  <<v % 256, (v \div 256) % 256, (v \div 65536) % 256, (v \div 16777216) % 256>>

\* the bytes of an array of ints of the guest
RECURSIVE StoreInts(_)
StoreInts(ints) ==
  IF Len(ints) = 0 THEN <<>> ELSE LE32(Head(ints)) \o StoreInts(Tail(ints))

\* taglib_file_audioproperties(filename): a null pointer for a file that is
\* not audio, else a block of four ints: length in milliseconds, channels,
\* sample rate, bitrate
taglib_file_audioproperties(file) ==
  IF ~file.valid THEN [null |-> TRUE, mem |-> <<>>]
  ELSE [null |-> FALSE,
        mem |-> StoreInts(<<file.audio.lengthInMilliseconds, file.audio.channels,
                            file.audio.sampleRate, file.audio.bitrate>>)]

---------------------------------------------------------------------------
(* Processes and sessions of the stateless API *)

\* no call
NoCall == [fn |-> "none"]

\* the number of processes calling the API
NProcs == 2
\* the most API calls started in one behaviour
MaxCalls == 2

Procs == 1..NProcs

\* the state of a sync.OnceValues nobody has called
OnceNew == [done |-> FALSE, lock |-> 0, result |-> "none"]

NoInst == [state |-> "none"]

\* the session variables before any process has called the API
IdleSession ==
  /\ pc = [p \in Procs |-> "idle"]
  /\ call = [p \in Procs |-> NoCall]
  /\ once = OnceNew
  /\ initRuns = 0
  /\ seen = [p \in Procs |-> "none"]
  /\ insts = [i \in 1..MaxCalls |-> NoInst]
  /\ sess = [p \in Procs |-> 0]
  /\ ret = [p \in Procs |-> NoCall]
  /\ ncalls = 0

\* a process that is in no operation on the shared instance
IdleProc ==
  [pc |-> "idle", op |-> "none", path |-> <<>>, mq |-> <<>>, held |-> 0,
   pend |-> <<>>, ci |-> 0, sub |-> "none", panicking |-> FALSE, alloc |-> {}]

\* the handle-mode variables after LoadBinary, before any operation
IdleHandle ==
  /\ hp = [p \in Procs |-> IdleProc]
  /\ stk = [mu |-> 0, ptrs |-> <<>>]
  /\ mstk = [mu |-> 0]
  /\ hheap = {}
  /\ running = {}

\* the most runs of the program, and the most names MkdirTemp can draw
MaxRuns == 3
MaxDirs == 3

\* the names os.MkdirTemp("", "go-taglib-wasm") can give a directory:
\* go-taglib-wasm followed by a random number
DirNames == 1..MaxDirs

\* the embedded binary and the binary of binaryPath
Bins == {"embedded", "custom"}

\* the directory of a name that does not exist, and a directory as it is
\* created
Absent == [exists |-> FALSE, keys |-> {}]
EmptyDir == [exists |-> TRUE, keys |-> {}]

\* no run yet: the temporary directory holds no cache, no process is up
NoRun ==
  [n |-> 0, phase |-> "down", bin |-> "none", cacheDir |-> 0, hit |-> FALSE,
   prev |-> 0, prevBin |-> "none"]

IdleCache ==
  /\ tmp = [d \in DirNames |-> Absent]
  /\ run = NoRun

\* no function applied yet
\* a guest address where no FileRef was allocated, and a process outside New
NoFileRef == [state |-> "none", null |-> FALSE, deletes |-> 0]
NoFile == [pc |-> "idle", made |-> 0, ptr |-> 0, err |-> "none"]

\* the most FileRef objects the guest allocates, and the most calls of
\* taglib_file_free counted for one of them
MaxFiles == 2
MaxDeletes == 2

FileRefs == 1..MaxFiles

\* the handle mode before the first New
IdleFile ==
  /\ gfiles = [h \in FileRefs |-> NoFileRef]
  /\ fl = [p \in Procs |-> NoFile]

\* size := uint32(64), the window of readString in bytes
Window == 64
\* the windows in the address space of a uint32, 2^32 / 64: an address is
\* the pair of its window and its offset in the window, so that uint32
\* arithmetic wraps at Windows
Windows == 67108864
\* the size of the small memory in windows: one page of 65536 bytes
MemWindows == 1024

\* the address 0
Null == <<0, 0>>

\* ptr + k in uint32, k a number of bytes
AddBytes(a, k) ==
  LET t == a[2] + k
  IN <<(a[1] + (t \div Window)) % Windows, t % Window>>

\* ptr + size in uint32, size a number of windows
AddWindows(a, n) == <<(a[1] + n) % Windows, a[2]>>

\* the address after the n windows read at a, not wrapped
EndOf(a, n) == <<a[1] + n, a[2]>>

\* the order of addresses
Less(a, b) == a[1] < b[1] \/ (a[1] = b[1] /\ a[2] < b[2])

\* Memory().Read(offset, count) and ReadUint32Le(offset) are in bounds: the
\* sum of offset and count, n windows and k bytes, taken without wrapping,
\* is at most the size of the memory
HasSize(mem, a, n, k) == a[1] + n + ((a[2] + k + Window - 1) \div Window) <= mem.size

\* the byte at an address
ByteAt(mem, a) == IF a \in DOMAIN mem.cells THEN mem.cells[a] ELSE mem.fill

\* the first address from a on that is not one of the cells: a itself, or
\* the address after a cell
FirstGap(mem, a) ==
  LET after == {AddBytes(x, 1) : x \in {y \in DOMAIN mem.cells : ~Less(y, a)}}
      gaps == {x \in {a} \cup after : x \notin DOMAIN mem.cells}
  IN CHOOSE x \in gaps : \A y \in gaps : ~Less(y, x)

\* the address of the first zero byte from a on and before end, if there
\* is one
IndexByteUpTo(mem, a, end) ==
  LET within(x) == ~Less(x, a) /\ Less(x, end)
      gap == FirstGap(mem, a)
      zeros == {x \in DOMAIN mem.cells : mem.cells[x] = 0 /\ within(x)}
                 \cup (IF mem.fill = 0 /\ within(gap) THEN {gap} ELSE {})
  IN IF zeros = {} THEN [found |-> FALSE, at |-> Null]
     ELSE [found |-> TRUE, at |-> CHOOSE x \in zeros : \A y \in zeros : ~Less(y, x)]

\* bytes.IndexByte(buf, 0) for the n windows read at a
IndexByte(mem, a, n) == IndexByteUpTo(mem, a, EndOf(a, n))

\* a memory of one page of zero bytes, and a decoder that is not running
ZeroPage == [size |-> MemWindows, fill |-> 0, cells |-> <<>>]
IdleDec ==
  [fn |-> "none", pc |-> "idle", ptr |-> Null, size |-> 0, buf |-> <<>>,
   sptr |-> Null, base |-> Null, strs |-> <<>>, nil |-> TRUE, src |-> <<>>,
   blks |-> <<>>,
   err |-> "none", str |-> <<>>]

\* before any decoding
IdleMemory ==
  /\ gm = ZeroPage
  /\ dec = IdleDec

NoOp == [fn |-> "none"]

IdleCodec == op = NoOp

---------------------------------------------------------------------------
(* The stateless API of taglib.go, each call as one step *)

Paths == {"eg.flac"}

\* the error values a call returns; "panic" is a run-time panic of the call
ErrNil == "nil"
ErrInvalidFile == "invalid file"
ErrSavingFile == "can't save file"
Panic == "panic"

\* the value lists a caller hands to WriteTags for one key: no value, one
\* or two values, an empty value alone or before another, a value holding VT
ValLists ==
  { <<>>,
    << <<>> >>,
    << <<"x">> >>,
    << <<"x">>, <<"y">> >>,
    << <<"y">>, <<"x">> >>,
    << <<>>, <<"x">> >>,
    << <<"x", VT, "y">> >> }

\* the maps a caller hands to WriteTags: some keys, each with a list of values
TagMaps == UNION {[D -> ValLists] : D \in SUBSET Keys}

\* the orders in which Go's range may visit the keys of a map
Orders(T) ==
  {o \in [1..Cardinality(DOMAIN T) -> DOMAIN T] :
     \A i, j \in DOMAIN o : i # j => o[i] # o[j]}

\* WriteTags: fmt.Sprintf("%s\t%s", k, strings.Join(vs, "\v")) per key
RawRows(T, order) == [i \in DOMAIN order |-> order[i] \o <<TAB>> \o Join(T[order[i]])]

\* a loop that does not skip a row without a tab: it takes the whole row as
\* a key without value
RECURSIVE BuildTagsKeepAll(_, _)
BuildTagsKeepAll(tags, raw) ==
  IF Len(raw) = 0 THEN tags
  ELSE LET c == Cut(Head(raw))
           next == IF ~c.ok
                   THEN (IF c.k \in DOMAIN tags THEN tags ELSE Replace(tags, c.k, <<>>))
                   ELSE IF c.k \in DOMAIN tags
                        THEN [tags EXCEPT ![c.k] = Append(@, c.v)]
                        ELSE Replace(tags, c.k, <<c.v>>)
       IN BuildTagsKeepAll(next, Tail(raw))

\* ReadTags: the loop over the decoded rows
RECURSIVE BuildTags(_, _)
BuildTags(tags, raw) ==
  IF Len(raw) = 0 THEN tags
  ELSE LET c == Cut(Head(raw))
           next == IF ~c.ok THEN tags
                   ELSE IF c.k \in DOMAIN tags
                        THEN [tags EXCEPT ![c.k] = Append(@, c.v)]
                        ELSE Replace(tags, c.k, <<c.v>>)
       IN BuildTags(next, Tail(raw))

\* ReadTags after mod.call: ErrInvalidFile when raw is nil, else the map built
\* from the rows
TagsFromRaw(r) ==
  IF r.null THEN [err |-> ErrInvalidFile, out |-> NoProps]
  ELSE [err |-> ErrNil, out |-> BuildTags(NoProps, r.rows)]

\* ReadTags(path) once its session is open: the error and the map
ReadTagsResult(file) == TagsFromRaw(taglib_file_tags(file))

\* Memory().ReadUint32Le(ptr + off): the word at byte offset off of the block
ReadUint32Le(mem, off) ==
  mem[off + 1] + 256 * mem[off + 2] + 65536 * mem[off + 3] + 16777216 * mem[off + 4]

\* readInts reading the words one byte apart
readIntsPacked(mem, len) == [i \in 1..len |-> ReadUint32Le(mem, i - 1)]

\* module.readInts(ptr, len): len words at ptr + 4*i, each widened to int
readInts(mem, len) == [i \in 1..len |-> ReadUint32Le(mem, 4 * (i - 1))]

audioPropertyLen == 4
\* time.Millisecond, in the nanoseconds of time.Duration
Millisecond == 1000000

\* ReadProperties after mod.call: raw has length 0 and capacity 4, call fills
\* it with readInts(ptr, cap) only from a non-zero pointer, and the result is
\* built from raw[0..3]
PropertiesFromRaw(r) ==
  LET raw == IF r.null THEN <<>> ELSE readInts(r.mem, audioPropertyLen)
  IN IF Len(raw) < 4 THEN [err |-> Panic, out |-> <<>>]
     ELSE [err |-> ErrNil,
           out |-> [Length |-> raw[1] * Millisecond, Channels |-> raw[2],
                    SampleRate |-> raw[3], Bitrate |-> raw[4]]]

\* ReadProperties(path) once its session is open
ReadPropertiesResult(file) == PropertiesFromRaw(taglib_file_audioproperties(file))

\* WriteTags after mod.call: ErrSavingFile when out is false
WriteErr(out) == IF out THEN ErrNil ELSE ErrSavingFile

\* WriteTags(path, tags, opts) once its session is open: the error, the file
\* afterwards, whether the guest called save
WriteTagsResult(file, T, opts, order, saveOk) ==
  LET r == taglib_file_write_tags(file, RawRows(T, order), opts, saveOk)
  IN [err |-> WriteErr(r.ret), file |-> r.file, saved |-> r.saved]

\* what TagLib reports for the fixture eg.flac, and for a mono file
AudioOfSong ==
  [lengthInMilliseconds |-> 1000, channels |-> 2, sampleRate |-> 48000, bitrate |-> 1460]
AudioOfMono ==
  [lengthInMilliseconds |-> 2147, channels |-> 1, sampleRate |-> 8000, bitrate |-> 0]
NoAudio ==
  [lengthInMilliseconds |-> 0, channels |-> 0, sampleRate |-> 0, bitrate |-> 0]

\* the file at the start: an audio file with tags, an audio file without, or
\* a file that is not audio
InitFiles ==
  {[valid |-> TRUE, props |-> [k \in Keys |-> << <<"x">> >>], audio |-> AudioOfSong],
   [valid |-> TRUE, props |-> NoProps, audio |-> AudioOfMono],
   [valid |-> FALSE, props |-> NoProps, audio |-> NoAudio]}

InitTagsVars ==
  /\ wr = NoCall
  /\ rd = NoCall
  /\ nw = 0

InitTags ==
  /\ \E f \in InitFiles : disk = [p \in Paths |-> f]
  /\ InitTagsVars
  /\ IdleSession
  /\ IdleHandle
  /\ IdleCache
  /\ IdleMemory
  /\ IdleFile
  /\ IdleCodec

WriteTags ==
  /\ wr = NoCall
  /\ nw < MaxWrites
  /\ \E p \in Paths, T \in TagMaps, opts \in 0..3, saveOk \in BOOLEAN :
       \E order \in Orders(T) :
         LET r == WriteTagsResult(disk[p], T, opts, order, saveOk)
         IN /\ disk' = [disk EXCEPT ![p] = r.file]
            /\ wr' = [fn |-> "WriteTags", path |-> p, tags |-> T, opts |-> opts,
                      before |-> disk[p], err |-> r.err, saved |-> r.saved]
  /\ rd' = NoCall
  /\ nw' = nw + 1
  /\ UNCHANGED <<varsSession, varsHandle, varsCache, varsCodec, varsFile, varsMemory>>

ReadTags ==
  \E p \in Paths :
    LET r == ReadTagsResult(disk[p])
    IN /\ rd' = [fn |-> "ReadTags", path |-> p, err |-> r.err, out |-> r.out]
       /\ UNCHANGED <<disk, wr, nw, varsSession, varsHandle, varsCache, varsCodec, varsFile, varsMemory>>

ReadProperties ==
  \E p \in Paths :
    LET r == ReadPropertiesResult(disk[p])
    IN /\ rd' = [fn |-> "ReadProperties", path |-> p, err |-> r.err, out |-> r.out]
       /\ UNCHANGED <<disk, wr, nw, varsSession, varsHandle, varsCache, varsCodec, varsFile, varsMemory>>

\* the records of the completed calls are dropped before the next WriteTags
Forget ==
  /\ wr # NoCall
  /\ wr' = NoCall
  /\ rd' = NoCall
  /\ UNCHANGED <<disk, nw, varsSession, varsHandle, varsCache, varsCodec, varsFile, varsMemory>>

NextTags == WriteTags \/ ReadTags \/ ReadProperties \/ Forget

SpecTags == InitTags /\ [][NextTags]_vars

---------------------------------------------------------------------------
(* Claims about the stateless API, checked under SpecTags *)

\* a map whose every key has at least one value, every value non-empty and
\* free of the separator VT
Supported(T) ==
  \A k \in DOMAIN T :
    /\ Len(T[k]) > 0
    /\ \A i \in 1..Len(T[k]) : Len(T[k][i]) > 0 /\ Find(T[k][i], VT) = -1

\* a ReadTags of the written path has completed after the last WriteTags,
\* which returned nil
ReadAfterWrite ==
  /\ wr.fn = "WriteTags"
  /\ wr.err = ErrNil
  /\ rd.fn = "ReadTags"
  /\ rd.path = wr.path

C2_Clearing ==
  (ReadAfterWrite /\ HasBit(wr.opts, CLEAR))
    => /\ rd.err = ErrNil
       /\ (DOMAIN rd.out) \subseteq (DOMAIN wr.tags)
       /\ (DOMAIN wr.tags = {} => rd.out = NoProps)

\* C2 witness: the empty map was written with Clear over a file that held
\* tags, and the read returned the empty map
C2_Witness ==
  /\ ReadAfterWrite
  /\ HasBit(wr.opts, CLEAR)
  /\ DOMAIN wr.tags = {}
  /\ DOMAIN wr.before.props # {}
  /\ wr.saved
  /\ rd.out = NoProps

\* a WriteTags without Clear has returned nil
MergeWritten ==
  /\ wr.fn = "WriteTags"
  /\ wr.err = ErrNil
  /\ ~HasBit(wr.opts, CLEAR)

\* every key outside T is stored as before
OthersKept ==
  \A k \in Keys \ (DOMAIN wr.tags) :
    /\ k \in DOMAIN disk[wr.path].props <=> k \in DOMAIN wr.before.props
    /\ k \in DOMAIN wr.before.props => disk[wr.path].props[k] = wr.before.props[k]

C3_WitnessRemoved ==
  /\ MergeWritten
  /\ \E k \in DOMAIN wr.tags :
       wr.tags[k] = <<>> /\ k \in DOMAIN wr.before.props
       /\ k \notin DOMAIN disk[wr.path].props

\* C4 as stated: on a file that is not audio, ReadTags, ReadProperties and
\* WriteTags each return ErrInvalidFile, and none panics
C4_InvalidFile ==
  /\ (rd.fn \in {"ReadTags", "ReadProperties"} /\ ~disk[rd.path].valid)
       => rd.err = ErrInvalidFile
  /\ (wr.fn = "WriteTags" /\ ~wr.before.valid) => wr.err = ErrInvalidFile

\* the map a write leaves, key by key: the keys of T whose joined values are
\* not empty, with the pieces of the joined values, and the keys kept
MergeResult(props, T, clear) ==
  LET base == IF clear THEN NoProps ELSE props
      keep == ((DOMAIN base) \ (DOMAIN T))
                \cup {k \in DOMAIN T : Join(T[k]) # <<>>}
  IN [k \in keep |-> IF k \in DOMAIN T THEN Split(Join(T[k])) ELSE base[k]]

\* the last WriteTags had DiffBeforeWrite set and its map, applied after the
\* optional Clear, gives the tags the file already held
DiffNoChange ==
  /\ wr.fn = "WriteTags"
  /\ wr.before.valid
  /\ HasBit(wr.opts, DIFF_SAVE)
  /\ MergeResult(wr.before.props, wr.tags, HasBit(wr.opts, CLEAR)) = wr.before.props

\* C10: with DiffBeforeWrite set, a write that would not change the stored
\* tags performs no save, leaves the file as it was and returns nil
C10_DiffBeforeWrite ==
  DiffNoChange =>
    /\ ~wr.saved
    /\ disk[wr.path] = wr.before
    /\ wr.err = ErrNil

\* C10 witness: such a write of a non-empty map, with and without Clear
C10_Witness ==
  /\ DiffNoChange
  /\ DOMAIN wr.tags # {}
  /\ HasBit(wr.opts, CLEAR)
  /\ ~wr.saved
  /\ wr.err = ErrNil

---------------------------------------------------------------------------
(* Host paths and the directory a session mounts *)

\* an absolute host path: the separator of the host OS and the elements
UnixPath(parts) == [sep |-> "/", parts |-> parts]

\* filepath.Dir of a clean absolute path: the path without its last element
Dir(path) == [path EXCEPT !.parts = SubSeq(@, 1, Len(@) - 1)]

\* wasmPath: filepath.ToSlash, every host separator becomes "/"
wasmPath(path) == [path EXCEPT !.sep = "/"]

\* path lies in the directory dir or below it
IsUnder(path, dir) ==
  /\ path.sep = dir.sep
  /\ Len(dir.parts) <= Len(path.parts)
  /\ SubSeq(path.parts, 1, Len(dir.parts)) = dir.parts

\* newModule with the host file system mounted whole, instead of dir
FSConfigRoot(dir, readOnly) ==
  {[host |-> [dir EXCEPT !.parts = <<>>], guest |-> [sep |-> "/", parts |-> <<>>],
    ro |-> readOnly]}

\* newModule: the fsConfig, one mount of dir at wasmPath(dir), read-only or not
FSConfig(dir, readOnly) ==
  {[host |-> dir, guest |-> wasmPath(dir), ro |-> readOnly]}

\* the host paths a guest path names under the mounts of a session
Resolve(mounts, guestPath) ==
  {[sep |-> m.host.sep,
    parts |-> m.host.parts \o SubSeq(guestPath.parts, Len(m.guest.parts) + 1,
                                     Len(guestPath.parts))] :
     m \in {n \in mounts : IsUnder(guestPath, n.guest)}}

\* the files of SpecSession: two songs in two directories
SongA == UnixPath(<<"music", "a.mp3">>)
SongB == UnixPath(<<"tmp", "b.flac">>)
SessionPaths == {SongA, SongB}

Disk0 ==
  [p \in SessionPaths |->
     IF p = SongA
     THEN [valid |-> TRUE, props |-> (<<"A">> :> << <<"x">> >>), audio |-> AudioOfSong]
     ELSE [valid |-> TRUE, props |-> (<<"B">> :> << <<"y">>, <<"x">> >>),
           audio |-> AudioOfMono]]

\* the map the WriteTags calls of SpecSession write, with Clear
SessionTags == (<<"A">> :> << <<"y">> >>)

---------------------------------------------------------------------------
(* getRuntimeOnce: sync.OnceValues around the body that builds the runtime *)

\* what the body returns: the runtime and the compiled module, or an error
InitOutcomes == {"rc", "error"}

\* a sync.Once whose slow path runs f although done is set
MustRunBodyAlways(o) == TRUE

\* a sync.Once whose slow path runs f again after f returned an error
MustRunBodyRetry(o) == ~o.done \/ o.result = "error"

\* sync.Once.doSlow, holding the lock: f runs only if done is still unset
MustRunBody(o) == ~o.done

\* a call of the API starts: filepath.Abs, filepath.Dir, then newModule
BeginCall(p, fns, paths) ==
  /\ pc[p] = "idle"
  /\ ncalls < MaxCalls
  /\ \E fn \in fns, path \in paths :
       call' = [call EXCEPT ![p] = [fn |-> fn, path |-> path, stub |-> "none", fail |-> "none"]]
  /\ pc' = [pc EXCEPT ![p] = "once"]
  /\ ret' = [ret EXCEPT ![p] = NoCall]
  /\ seen' = [seen EXCEPT ![p] = "none"]
  /\ ncalls' = ncalls + 1
  /\ UNCHANGED <<disk, varsTags, varsHandle, once, initRuns, insts, sess, varsCache, varsCodec, varsFile, varsMemory>>

\* a call of ReadTags, ReadProperties or WriteTags starts
Begin(p) == BeginCall(p, {"ReadTags", "ReadProperties", "WriteTags"}, SessionPaths)

\* sync.Once.Do: the fast path when done is set, else towards doSlow
OnceCheck(p) ==
  /\ pc[p] = "once"
  /\ IF once.done
     THEN /\ seen' = [seen EXCEPT ![p] = once.result]
          /\ pc' = [pc EXCEPT ![p] = "gotrt"]
     ELSE /\ pc' = [pc EXCEPT ![p] = "slow"]
          /\ UNCHANGED seen
  /\ UNCHANGED <<disk, varsTags, varsHandle, call, once, initRuns, insts, sess, ret, ncalls, varsCache, varsCodec, varsFile, varsMemory>>

\* sync.Once.doSlow: o.m.Lock()
OnceLock(p) ==
  /\ pc[p] = "slow"
  /\ once.lock = 0
  /\ once' = [once EXCEPT !.lock = p]
  /\ pc' = [pc EXCEPT ![p] = "locked"]
  /\ UNCHANGED <<disk, varsTags, varsHandle, call, initRuns, seen, insts, sess, ret, ncalls, varsCache, varsCodec, varsFile, varsMemory>>

\* sync.Once.doSlow under the lock: run the body, or unlock and return
OnceLocked(p) ==
  /\ pc[p] = "locked"
  /\ IF MustRunBody(once)
     THEN /\ initRuns' = initRuns + 1
          /\ pc' = [pc EXCEPT ![p] = "body"]
          /\ UNCHANGED <<once, seen>>
     ELSE /\ once' = [once EXCEPT !.lock = 0]
          /\ seen' = [seen EXCEPT ![p] = once.result]
          /\ pc' = [pc EXCEPT ![p] = "gotrt"]
          /\ UNCHANGED initRuns
  /\ UNCHANGED <<disk, varsTags, varsHandle, call, insts, sess, ret, ncalls, varsCache, varsCodec, varsFile, varsMemory>>

\* the body of getRuntimeOnce returns; done is stored and the lock released
OnceBody(p) ==
  /\ pc[p] = "body"
  /\ \E outcome \in InitOutcomes :
       /\ once' = [done |-> TRUE, lock |-> 0, result |-> outcome]
       /\ seen' = [seen EXCEPT ![p] = outcome]
  /\ pc' = [pc EXCEPT ![p] = "gotrt"]
  /\ UNCHANGED <<disk, varsTags, varsHandle, call, initRuns, insts, sess, ret, ncalls, varsCache, varsCodec, varsFile, varsMemory>>

---------------------------------------------------------------------------
(* newModule, module.call and module.close, step by step *)

ErrInitModule == "init module"
ErrCall == "call"

\* every newModule hands out the instance 1
SharedInstance(I) == 1

\* rt.InstantiateModule with WithName(""): a new anonymous instance
FreshInstance(I) == CHOOSE i \in DOMAIN I : I[i].state = "none" /\ \A j \in 1..(i - 1) : I[j].state # "none"

\* the result memory of an instance before an export has run
NoResult == [kind |-> "none"]

\* the errors of newModule as its callers wrap them
InitModuleError(cause) == [err |-> ErrInitModule, cause |-> cause]

\* a failed InstantiateModule that leaves its instance behind, live
FailedInstantiateLeaks(I) ==
  [I EXCEPT ![FreshInstance(I)] =
     [state |-> "live", mounts |-> {}, heap |-> {}, res |-> NoResult]]

\* rt.InstantiateModule returning an error: the instances are as before, the
\* runtime has closed what it had built
FailedInstantiate(I) == I

\* a newModule that always mounts read-write
ReadOnlyNever(fn) == FALSE

\* the readOnly argument of newModule: true in ReadTags and ReadProperties,
\* false in WriteTags, the parameter of open in Open and OpenReadonly
ReadOnlyOf(fn) == fn \in {"ReadTags", "ReadProperties", "OpenReadonly"}

\* newModule: the error of getRuntimeOnce, the error of InstantiateModule
\* (the mount or the start export _initialize failed), or a new instance
\* with the mount of dir; open returns the File, the others go on to call
NewModule(p) ==
  /\ pc[p] = "gotrt"
  /\ \/ /\ seen[p] = "error"
        /\ ret' = [ret EXCEPT ![p] = InitModuleError("get runtime once")]
        /\ pc' = [pc EXCEPT ![p] = "done"]
        /\ UNCHANGED <<insts, sess>>
     \/ /\ seen[p] = "rc"
        /\ ret' = [ret EXCEPT ![p] = InitModuleError("instantiate")]
        /\ pc' = [pc EXCEPT ![p] = "done"]
        /\ insts' = FailedInstantiate(insts)
        /\ UNCHANGED sess
     \/ /\ seen[p] = "rc"
        /\ LET id == FreshInstance(insts)
           IN /\ insts' = [insts EXCEPT ![id] =
                             [state |-> "live",
                              mounts |-> FSConfig(Dir(call[p].path), ReadOnlyOf(call[p].fn)),
                              heap |-> {}, res |-> NoResult]]
              /\ sess' = [sess EXCEPT ![p] = id]
        /\ pc' = [pc EXCEPT ![p] =
                    IF call[p].fn \in {"Open", "OpenReadonly"} THEN "open" ELSE "encode"]
        /\ UNCHANGED ret
  /\ UNCHANGED <<disk, varsTags, varsHandle, call, once, initRuns, seen, ncalls, varsCache, varsCodec, varsFile, varsMemory>>

\* the rows WriteTags hands to the guest
SessionRows == RawRows(SessionTags, << <<"A">> >>)

\* module.call: the blocks malloc'ed for the arguments, in order: one per
\* string, and for a []string the slot block and one per element
ArgKinds(c) ==
  IF c.fn = "WriteTags"
  THEN <<"string", "slots">> \o [i \in 1..Len(SessionRows) |-> "elem"]
  ELSE <<"string">>

\* the heap after malloc has returned blocks of these kinds
Alloc(heap, kinds) ==
  heap \cup {[n |-> Cardinality(heap) + i, kind |-> kinds[i]] : i \in DOMAIN kinds}

\* what the export malloc can do: trap, return 0, return a block
GuestMallocs == {"trap", "zero", "block"}

\* a malloc that hands on whatever pointer the export returned
MallocUnchecked(g) ==
  IF g = "trap" THEN [ptr |-> 0, err |-> "malloc error"]
  ELSE [ptr |-> IF g = "zero" THEN 0 ELSE 1, err |-> ErrNil]

\* module.malloc: the error of the call, or "no pointer returned" for the
\* pointer 0, or the pointer (1 stands for any address but 0)
MallocResult(g) ==
  IF g = "trap" THEN [ptr |-> 0, err |-> "malloc error"]
  ELSE IF g = "zero" THEN [ptr |-> 0, err |-> "no pointer returned"]
  ELSE [ptr |-> 1, err |-> ErrNil]

\* module.call, the loop over args. Every malloc and every write succeeds;
\* or the k+1st malloc does one of these things, or the write into its block
\* fails, and call returns the error with the blocks allocated so far
EncodeArguments(p, mallocs) ==
  /\ pc[p] = "encode"
  /\ LET kinds == ArgKinds(call[p])
     IN \/ /\ insts' = [insts EXCEPT ![sess[p]].heap = Alloc(@, kinds)]
           /\ pc' = [pc EXCEPT ![p] = "export"]
           /\ UNCHANGED <<ret, call>>
        \/ \E k \in 0..(Len(kinds) - 1), g \in mallocs :
             LET m == MallocResult(g)
                 written == g # "block"
             IN /\ call' = [call EXCEPT ![p].fail = "encode"]
                /\ IF m.err # ErrNil \/ ~written
                   THEN /\ insts' = [insts EXCEPT ![sess[p]].heap =
                               Alloc(@, SubSeq(kinds, 1, IF g = "block" THEN k + 1 ELSE k))]
                        /\ pc' = [pc EXCEPT ![p] = "close"]
                        /\ ret' = [ret EXCEPT ![p] = [err |-> ErrCall]]
                   ELSE /\ insts' = [insts EXCEPT ![sess[p]].heap = Alloc(@, kinds)]
                        /\ pc' = [pc EXCEPT ![p] = "export"]
                        /\ UNCHANGED ret
  /\ UNCHANGED <<disk, varsTags, varsHandle, once, initRuns, seen, sess, ncalls, varsCache, varsCodec, varsFile, varsMemory>>

\* the loop over args where the only failure is a malloc that traps
Encode(p) == EncodeArguments(p, {"trap"})

\* the file the guest finds at a guest path: one of the disk under a mount, or
\* none, which TagLib reports as a null file
GuestFile(inst, guestPath) ==
  LET hosts == Resolve(inst.mounts, guestPath) \cap DOMAIN disk
  IN IF hosts = {} THEN [valid |-> FALSE, props |-> NoProps, audio |-> NoAudio]
     ELSE disk[CHOOSE h \in hosts : TRUE]

\* the guest can write below some mount of the path
Writable(inst, guestPath) ==
  \E m \in inst.mounts : IsUnder(guestPath, m.guest) /\ ~m.ro

\* module.call: the export runs in the instance of the process; the guest
\* opens the file under the mounts of that instance, leaves its result in
\* the memory of the instance and, for taglib_file_write_tags, saves the file
Export(p) ==
  /\ pc[p] = "export"
  /\ LET inst == insts[sess[p]]
         gp == wasmPath(call[p].path)
         file == GuestFile(inst, gp)
     IN \/ /\ call[p].fn = "ReadTags"
           /\ LET r == taglib_file_tags(file)
              IN insts' = [insts EXCEPT ![sess[p]] =
                   [@ EXCEPT !.res = [kind |-> "rows", null |-> r.null, rows |-> r.rows],
                             !.heap = IF r.null THEN @ ELSE Alloc(@, <<"result">>)]]
           /\ UNCHANGED disk
        \/ /\ call[p].fn = "ReadProperties"
           /\ LET r == taglib_file_audioproperties(file)
              IN insts' = [insts EXCEPT ![sess[p]] =
                   [@ EXCEPT !.res = [kind |-> "ints", null |-> r.null, mem |-> r.mem],
                             !.heap = IF r.null THEN @ ELSE Alloc(@, <<"result">>)]]
           /\ UNCHANGED disk
        \/ /\ call[p].fn = "WriteTags"
           /\ LET r == taglib_file_write_tags(file, SessionRows, CLEAR, Writable(inst, gp))
              IN /\ insts' = [insts EXCEPT ![sess[p]].res = [kind |-> "bool", out |-> r.ret]]
                 /\ disk' = IF r.saved /\ r.ret
                            THEN [disk EXCEPT ![call[p].path] = r.file]
                            ELSE disk
  /\ pc' = [pc EXCEPT ![p] = "decode"]
  /\ UNCHANGED <<varsTags, varsHandle, call, once, initRuns, seen, sess, ret, ncalls, varsCache, varsCodec, varsFile, varsMemory>>

\* module.call decodes the result from the memory of the instance and
\* returns; the caller builds what it returns. Or a read of readStrings,
\* readString or readInts is out of the bounds of the memory and call
\* returns "reading destination type ..."
DecodeResult(p, readFails) ==
  /\ pc[p] = "decode"
  /\ LET res == insts[sess[p]].res
     IN \/ /\ ret' = [ret EXCEPT ![p] =
                IF res.kind = "rows" THEN TagsFromRaw(res)
                ELSE IF res.kind = "ints" THEN PropertiesFromRaw(res)
                ELSE IF res.kind = "bool" THEN [err |-> WriteErr(res.out)]
                ELSE [err |-> ErrCall]]
           /\ UNCHANGED call
        \/ /\ readFails
           /\ res.kind \in {"rows", "ints"}
           /\ ~res.null
           /\ ret' = [ret EXCEPT ![p] = [err |-> ErrCall]]
           /\ call' = [call EXCEPT ![p].fail = "decode"]
  /\ pc' = [pc EXCEPT ![p] = "close"]
  /\ UNCHANGED <<disk, varsTags, varsHandle, once, initRuns, seen, insts, sess, ncalls, varsCache, varsCodec, varsFile, varsMemory>>

\* the decoding where every read is inside the memory
Decode(p) == DecodeResult(p, FALSE)

\* a close that leaves the instance as it is
CloseInstNot(inst) == inst

\* m.mod.Close: the instance and its whole memory are gone; closes counts
\* the calls of Close on the instance
CloseInst(inst) ==
  [state |-> "closed", closes |-> IF inst.state = "closed" THEN inst.closes + 1 ELSE 1]

\* the deferred mod.close()
Close(p) ==
  /\ pc[p] = "close"
  /\ insts' = [insts EXCEPT ![sess[p]] = CloseInst(@)]
  /\ pc' = [pc EXCEPT ![p] = "done"]
  /\ UNCHANGED <<disk, varsTags, varsHandle, call, once, initRuns, seen, sess, ret, ncalls, varsCache, varsCodec, varsFile, varsMemory>>

\* the API call has returned to its caller
Return(p) ==
  /\ pc[p] = "done"
  /\ pc' = [pc EXCEPT ![p] = "idle"]
  /\ call' = [call EXCEPT ![p] = NoCall]
  /\ ret' = [ret EXCEPT ![p] = NoCall]
  /\ seen' = [seen EXCEPT ![p] = "none"]
  /\ sess' = [sess EXCEPT ![p] = 0]
  /\ UNCHANGED <<disk, varsTags, varsHandle, once, initRuns, insts, ncalls, varsCache, varsCodec, varsFile, varsMemory>>

InitSession ==
  /\ disk = Disk0
  /\ InitTagsVars
  /\ IdleSession
  /\ IdleHandle
  /\ IdleCache
  /\ IdleMemory
  /\ IdleFile
  /\ IdleCodec

NextSession ==
  \E p \in Procs :
    \/ Begin(p)
    \/ OnceCheck(p)
    \/ OnceLock(p)
    \/ OnceLocked(p)
    \/ OnceBody(p)
    \/ NewModule(p)
    \/ Encode(p)
    \/ Export(p)
    \/ Decode(p)
    \/ Close(p)
    \/ Return(p)

SpecSession == InitSession /\ [][NextSession]_vars

---------------------------------------------------------------------------
(* The whole API of the per-operation sessions: ReadTags, ReadProperties,  *)
(* WriteTags, Open, OpenReadonly and File.Close, with guest faults         *)

\* the number of processes that call the API in SpecApi
NCallers == 1

Callers == 1..NCallers

\* the files of SpecApi: a song and a file that is not audio
Notes == UnixPath(<<"tmp", "notes.txt">>)
ApiPaths == {SongA, Notes}

DiskApi ==
  [p \in ApiPaths |->
     IF p = SongA
     THEN [valid |-> TRUE, props |-> (<<"A">> :> << <<"x">> >>), audio |-> AudioOfSong]
     ELSE [valid |-> FALSE, props |-> NoProps, audio |-> NoAudio]]

\* a call of one of the five functions that open a session starts
BeginApi(p) ==
  BeginCall(p, {"ReadTags", "ReadProperties", "WriteTags", "Open", "OpenReadonly"},
            ApiPaths)

\* the host functions the module "env" exports to the guest
Stubs == {"__cxa_allocate_exception", "__cxa_throw"}

\* a host function that returns to the guest
StubReturns(stub) == FALSE

\* the loop over args with every failure of malloc and of the write, and
\* the decoding with reads out of bounds
EncodeApi(p) == EncodeArguments(p, GuestMallocs)
DecodeApi(p) == DecodeResult(p, TRUE)

\* the host functions of "env": both bodies are a panic
StubPanics(stub) == stub \in Stubs

\* the guest, inside the export, invokes a host function of "env": its panic
\* ends the export, Call returns the error and module.call wraps it
Fault(p) ==
  /\ pc[p] = "export"
  /\ call[p].stub = "none"
  /\ \E stub \in Stubs :
       /\ call' = [call EXCEPT ![p].stub = stub]
       /\ IF StubPanics(stub)
          THEN /\ ret' = [ret EXCEPT ![p] = [err |-> ErrCall, cause |-> stub]]
               /\ pc' = [pc EXCEPT ![p] = "close"]
          ELSE UNCHANGED <<ret, pc>>
  /\ UNCHANGED <<disk, varsTags, varsHandle, once, initRuns, seen, insts, sess, ncalls, varsCache, varsCodec, varsFile, varsMemory>>

\* File.Close: f.mod.close() on the session of a File that open returned
FileClose(p) ==
  /\ pc[p] = "open"
  /\ insts' = [insts EXCEPT ![sess[p]] = CloseInst(@)]
  /\ ret' = [ret EXCEPT ![p] = [err |-> ErrNil]]
  /\ pc' = [pc EXCEPT ![p] = "done"]
  /\ UNCHANGED <<disk, varsTags, varsHandle, call, once, initRuns, seen, sess, ncalls, varsCache, varsCodec, varsFile, varsMemory>>

InitApi ==
  /\ disk = DiskApi
  /\ InitTagsVars
  /\ IdleSession
  /\ IdleHandle
  /\ IdleCache
  /\ IdleMemory
  /\ IdleFile
  /\ IdleCodec

NextApi ==
  \E p \in Callers :
    \/ BeginApi(p)
    \/ OnceCheck(p)
    \/ OnceLock(p)
    \/ OnceLocked(p)
    \/ OnceBody(p)
    \/ NewModule(p)
    \/ EncodeApi(p)
    \/ Export(p)
    \/ Fault(p)
    \/ DecodeApi(p)
    \/ Close(p)
    \/ FileClose(p)
    \/ Return(p)

SpecApi == InitApi /\ [][NextApi]_vars

---------------------------------------------------------------------------
(* Claims about sessions, checked under SpecSession *)

\* the process holds a session: newModule has returned one and the deferred
\* close has not run
InSession(p) == pc[p] \in {"encode", "export", "decode", "close"}

\* C5: concurrent ReadTags calls each run in a session no other call uses,
\* and, while no WriteTags has changed a file, a ReadTags call fails only
\* when the runtime, the instantiation or a guest malloc failed, and a call
\* that succeeds returns the map a sequential ReadTags of its file returns
C5_ConcurrentReads ==
  /\ \A p, q \in Procs :
       p # q /\ InSession(p) /\ InSession(q) => sess[p] # sess[q]
  /\ \A p \in Procs : InSession(p) => insts[sess[p]].state = "live"
  /\ disk = Disk0 =>
       \A p \in Procs :
         pc[p] = "done" /\ call[p].fn = "ReadTags" =>
           /\ ret[p].err \in {ErrNil, ErrInitModule, ErrCall}
           /\ ret[p].err = ErrNil =>
                ret[p].out = ReadTagsResult(Disk0[call[p].path]).out

\* C5 witness: a ReadTags call has returned its map while a ReadTags call of
\* another file is between its export and its close
C5_Witness ==
  \E p, q \in Procs :
    /\ p # q
    /\ disk = Disk0
    /\ pc[p] = "done" /\ call[p].fn = "ReadTags" /\ ret[p].err = ErrNil
    /\ pc[q] \in {"export", "decode"} /\ call[q].fn = "ReadTags"
    /\ call[q].path # call[p].path

\* C6: the body of getRuntimeOnce is started at most once, and a process to
\* which getRuntimeOnce has returned got the one result the finished body
\* stored: the same runtime, or the same error, for all of them
C6_InitOnce ==
  /\ initRuns <= 1
  /\ \A p \in Procs :
       seen[p] # "none" => once.done /\ initRuns = 1 /\ seen[p] = once.result

\* C6 witness: getRuntimeOnce has returned to every process, one of them ran
\* the body
C6_Witness ==
  /\ initRuns = 1
  /\ \A p \in Procs : seen[p] # "none" /\ pc[p] = "gotrt"

\* the kinds of block module.call allocates for arguments
ArgBlockKinds == {"string", "slots", "elem"}

\* C7: once module.call has returned, none of the blocks it allocated for
\* its arguments is still allocated in the guest heap of its session
C7_ArgsFreed ==
  \A p \in Procs :
    pc[p] = "close" =>
      \A b \in insts[sess[p]].heap : b.kind \notin ArgBlockKinds

\* C18: once the body of getRuntimeOnce has returned an error, it has run
\* once and is not run again, every call that has returned has returned that
\* error, wrapped as "get runtime once", and no instance has been created
C18_NoRetry ==
  once.done /\ once.result = "error" =>
    /\ initRuns = 1
    /\ \A p \in Procs : pc[p] # "body"
    /\ \A i \in DOMAIN insts : insts[i].state = "none"
    /\ \A p \in Procs : pc[p] = "done" => ret[p] = InitModuleError("get runtime once")

\* C18 witness: after a failed initialization every process has made a call
\* and got the error
C18_Witness ==
  /\ once.result = "error"
  /\ initRuns = 1
  /\ \A p \in Procs : pc[p] = "done" /\ ret[p] = InitModuleError("get runtime once")

---------------------------------------------------------------------------
(* Claims about the five functions that open a session, checked under SpecApi *)

\* the process holds a session: of a call, or of a File that is open
HoldsSession(p) == pc[p] \in {"encode", "export", "decode", "close", "open"}

\* C13: a newModule that fails returns no session with its error, and every
\* live instance is the session of a call in progress or of an open File:
\* a failed open leaves no instance that someone would have to close
C13_AllOrNothing ==
  /\ \A p \in Procs : pc[p] = "done" /\ ret[p].err = ErrInitModule => sess[p] = 0
  /\ \A p \in Procs : HoldsSession(p) => sess[p] # 0 /\ insts[sess[p]].state = "live"
  /\ \A i \in DOMAIN insts :
       insts[i].state = "live" => \E p \in Procs : HoldsSession(p) /\ sess[p] = i

\* C13 witness: Open has failed in InstantiateModule; it returned the error,
\* no session, and no instance is live
C13_Witness ==
  \E p \in Procs :
    /\ pc[p] = "done"
    /\ call[p].fn = "Open"
    /\ ret[p] = InitModuleError("instantiate")
    /\ sess[p] = 0
    /\ \A i \in DOMAIN insts : insts[i].state # "live"

\* ReadTags, ReadProperties and WriteTags: the calls that close their session
PerOperation(p) == call[p].fn \in {"ReadTags", "ReadProperties", "WriteTags"}

\* C16: a ReadTags, ReadProperties or WriteTags call that opened a session
\* uses it only while it is live and has closed it, once, when it returns;
\* no instance is closed twice
C16_ClosedOnce ==
  /\ \A p \in Procs :
       PerOperation(p) /\ pc[p] \in {"encode", "export", "decode", "close"} =>
         insts[sess[p]].state = "live"
  /\ \A p \in Procs :
       PerOperation(p) /\ pc[p] = "done" /\ sess[p] # 0 =>
         insts[sess[p]] = [state |-> "closed", closes |-> 1]
  /\ \A i \in DOMAIN insts : insts[i].state = "closed" => insts[i].closes = 1

\* C16 witness: ReadTags of the file that is not audio has returned
\* ErrInvalidFile and its session is closed
C16_Witness ==
  \E p \in Procs :
    /\ pc[p] = "done"
    /\ call[p].fn = "ReadTags"
    /\ ret[p].err = ErrInvalidFile
    /\ insts[sess[p]] = [state |-> "closed", closes |-> 1]

\* C17: the session of ReadTags, ReadProperties and OpenReadonly is mounted
\* read-only, that of WriteTags and Open read-write, from newModule until
\* it is closed
C17_MountMode ==
  \A p \in Procs :
    HoldsSession(p) =>
      /\ insts[sess[p]].mounts # {}
      /\ \A m \in insts[sess[p]].mounts :
           m.ro = (call[p].fn \in {"ReadTags", "ReadProperties", "OpenReadonly"})

\* C17 witness: a File of OpenReadonly is open on a read-only mount
C17_Witness ==
  \E p \in Procs :
    /\ pc[p] = "open"
    /\ call[p].fn = "OpenReadonly"
    /\ \E m \in insts[sess[p]].mounts : m.ro

\* C17 second witness: WriteTags has saved through its read-write mount
C17_WitnessWrite ==
  \E p \in Procs :
    /\ pc[p] = "close"
    /\ call[p].fn = "WriteTags"
    /\ ret[p].err = ErrNil
    /\ \E m \in insts[sess[p]].mounts : ~m.ro

\* C20: a call in which the guest invoked __cxa_allocate_exception or
\* __cxa_throw has left the export at once and returns the wrapped error of
\* Call: not nil, not ErrInvalidFile, not ErrSavingFile
C20_FaultAborts ==
  \A p \in Procs :
    call[p].fn # "none" /\ call[p].stub # "none" =>
      /\ pc[p] \in {"close", "done"}
      /\ ret[p] = [err |-> ErrCall, cause |-> call[p].stub]
      /\ ret[p].err \notin {ErrNil, ErrInvalidFile, ErrSavingFile}

\* C20 witness: WriteTags has returned the error of a __cxa_throw
C20_Witness ==
  \E p \in Procs :
    /\ pc[p] = "done"
    /\ call[p].fn = "WriteTags"
    /\ call[p].stub = "__cxa_throw"
    /\ ret[p].err = ErrCall

\* C24: a call in which a malloc for an argument failed or returned 0, a
\* write into guest memory failed, or a read of the decoder was out of
\* bounds returns the wrapped error of module.call: not nil, not
\* ErrInvalidFile, not ErrSavingFile, and not after running the export with
\* a pointer that was never allocated
C24_FailuresAreErrors ==
  \A p \in Procs :
    call[p].fn # "none" /\ call[p].fail # "none" =>
      /\ pc[p] \in {"close", "done"}
      /\ ret[p].err = ErrCall
      /\ ret[p].err \notin {ErrNil, ErrInvalidFile, ErrSavingFile, Panic}

\* C24 witness: a ReadTags of a valid file whose decoder read out of bounds
\* has returned the error
C24_Witness ==
  \E p \in Procs :
    /\ pc[p] = "done"
    /\ call[p].fn = "ReadTags"
    /\ call[p].fail = "decode"
    /\ ret[p].err = ErrCall

\* C24 second witness: WriteTags after a failure in the encoding of its
\* arguments, with the file as it was
C24_WitnessEncode ==
  \E p \in Procs :
    /\ pc[p] = "done"
    /\ call[p].fn = "WriteTags"
    /\ call[p].fail = "encode"
    /\ ret[p].err = ErrCall
    /\ disk = DiskApi

---------------------------------------------------------------------------
(* The handle mode: operations on the one instance LoadBinary created *)

\* the most rows an operation writes, and the most rows the guest returns
MaxRows == 1
\* no operation starts while the guest heap holds this many blocks
MaxHeap == 3

\* LoadBinary: WithDirMount("/", "/"), the whole host file system
LoadBinaryMounts ==
  {[host |-> UnixPath(<<>>), guest |-> UnixPath(<<>>), ro |-> FALSE]}

\* a mutex that is handed to everyone who asks
CanLockAlways(mu) == TRUE

\* sync.Mutex.Lock returns only when no one holds the mutex
CanLock(mu) == mu = 0

\* sync.Mutex.Unlock
Unlock(mu) == 0

\* the address malloc returns: a block that is not allocated
NewBlock(heap) == CHOOSE n \in 1..(Cardinality(heap) + 1) : n \notin heap /\ \A m \in 1..(n - 1) : m \in heap

\* the blocks an operation mallocs for its arguments, in order: stk.string
\* one block, stk.strings the slot block and then one block per element
ArgQueue(name, n) ==
  IF name = "taglib_file_new" THEN <<"string">>
  ELSE IF name = "taglib_file_write_tags" THEN <<"slots">> \o [j \in 1..n |-> "elem"]
  ELSE <<>>

\* a reset that keeps the pointers the last operation tracked
KeepPtrs(ptrs) == ptrs

\* stk.ptrs = stk.ptrs[:0]
ResetPtrs(ptrs) == <<>>

\* stk.reset() at the start of an operation: stk.mu.Lock(), the stack and the
\* tracked pointers emptied; then the operation is in its argument loop
StkReset(p) ==
  /\ hp[p].pc = "idle"
  /\ CanLock(stk.mu)
  /\ Cardinality(hheap) < MaxHeap
  /\ stk' = [mu |-> p, ptrs |-> ResetPtrs(stk.ptrs)]
  /\ \E name \in {"taglib_file_new", "taglib_file_tags", "taglib_file_write_tags"},
        path \in SessionPaths, n \in 0..MaxRows :
       hp' = [hp EXCEPT ![p] =
                [IdleProc EXCEPT !.pc = "args", !.op = name,
                                 !.path = IF name = "taglib_file_new" THEN path ELSE <<>>,
                                 !.mq = ArgQueue(name, n)]]
  /\ UNCHANGED <<disk, varsTags, varsSession, mstk, hheap, running, varsCache, varsCodec, varsFile, varsMemory>>

\* malloc(): mstk.reset() locks mstk.mu and the export malloc is invoked
MallocBegin(p) ==
  /\ hp[p].pc = "args"
  /\ hp[p].sub = "none"
  /\ hp[p].mq # <<>>
  /\ CanLock(mstk.mu)
  /\ mstk' = [mu |-> p]
  /\ running' = running \cup {<<p, "malloc">>}
  /\ hp' = [hp EXCEPT ![p].sub = "malloc"]
  /\ UNCHANGED <<disk, varsTags, varsSession, stk, hheap, varsCache, varsCodec, varsFile, varsMemory>>

\* malloc() returns: the export has returned a block, mstk.mu is unlocked;
\* stk.string and stk.strings append the block of a string or an element to
\* stk.ptrs at once, the slot block after the last element
MallocEnd(p) ==
  /\ hp[p].sub = "malloc"
  /\ LET blk == NewBlock(hheap)
         kind == Head(hp[p].mq)
         rest == Tail(hp[p].mq)
         held == IF kind = "slots" THEN blk ELSE hp[p].held
         ptrs1 == IF kind = "slots" THEN stk.ptrs ELSE Append(stk.ptrs, blk)
         last == rest = <<>> /\ held # 0
     IN /\ hheap' = hheap \cup {blk}
        /\ stk' = [stk EXCEPT !.ptrs = IF last THEN Append(ptrs1, held) ELSE ptrs1]
        /\ hp' = [hp EXCEPT ![p].sub = "none", ![p].mq = rest,
                            ![p].held = IF last THEN 0 ELSE held,
                            ![p].alloc = @ \cup {blk}]
  /\ mstk' = [mu |-> Unlock(mstk.mu)]
  /\ running' = running \ {<<p, "malloc">>}
  /\ UNCHANGED <<disk, varsTags, varsSession, varsCache, varsCodec, varsFile, varsMemory>>

\* malloc() returns 0, no block, for a string or an element, and
\* Memory().Write(ptr, b) fails: stk.string or stk.strings panics with
\* "failed to write to memory" before the pointer is appended to stk.ptrs;
\* the deferred cleanup of stk.reset runs next
WriteFails(p) ==
  /\ hp[p].sub = "malloc"
  /\ Head(hp[p].mq) \in {"string", "elem"}
  /\ hp' = [hp EXCEPT ![p].sub = "none", ![p].mq = <<>>, ![p].pc = "cleanup",
                      ![p].ci = 1, ![p].panicking = TRUE]
  /\ mstk' = [mu |-> Unlock(mstk.mu)]
  /\ running' = running \ {<<p, "malloc">>}
  /\ UNCHANGED <<disk, varsTags, varsSession, stk, hheap, varsCache, varsCodec, varsFile, varsMemory>>

\* the export malloc traps: call panics inside malloc(), whose deferred
\* cleanup unlocks mstk.mu; the panic goes on through stk.string or
\* stk.strings to the deferred cleanup of stk.reset
MallocPanics(p) ==
  /\ hp[p].sub = "malloc"
  /\ hp' = [hp EXCEPT ![p].sub = "none", ![p].mq = <<>>, ![p].pc = "cleanup",
                      ![p].ci = 1, ![p].panicking = TRUE]
  /\ mstk' = [mu |-> Unlock(mstk.mu)]
  /\ running' = running \ {<<p, "malloc">>}
  /\ UNCHANGED <<disk, varsTags, varsSession, stk, hheap, varsCache, varsCodec, varsFile, varsMemory>>

\* call(&stk, name): the export of the operation is invoked
CallBegin(p) ==
  /\ hp[p].pc = "args"
  /\ hp[p].sub = "none"
  /\ hp[p].mq = <<>>
  /\ running' = running \cup {<<p, hp[p].op>>}
  /\ hp' = [hp EXCEPT ![p].pc = "incall"]
  /\ UNCHANGED <<disk, varsTags, varsSession, stk, mstk, hheap, varsCache, varsCodec, varsFile, varsMemory>>

\* the heap after the guest has allocated n more blocks, and those blocks
RECURSIVE Grow(_, _)
Grow(heap, n) ==
  IF n = 0 THEN [heap |-> heap, blks |-> <<>>]
  ELSE LET b == NewBlock(heap)
           g == Grow(heap \cup {b}, n - 1)
       IN [heap |-> g.heap, blks |-> <<b>> \o g.blks]

\* what readStrings hands to free for an array of n rows, as a block and an
\* offset into it: readString frees every row at its address; the deferred
\* closure of readStrings frees ptr as it is when the function returns, after
\* the loop has done ptr += 4 for every row
StringsFrees(rows, array) ==
  [j \in 1..Len(rows) |-> [blk |-> rows[j], off |-> 0]]
    \o <<[blk |-> array, off |-> 4 * Len(rows)]>>

\* the export of the operation returns; taglib_file_tags has allocated an
\* array and its rows, which getStrings is about to read and free. Or
\* CallWithStack returns an error and call panics: the deferred cleanup of
\* stk.reset runs next
CallEnd(p) ==
  /\ hp[p].pc = "incall"
  /\ running' = running \ {<<p, hp[p].op>>}
  /\ \/ /\ hp[p].op = "taglib_file_tags"
        /\ \E n \in 0..MaxRows :
             LET g == Grow(hheap, n + 1)
             IN /\ hheap' = g.heap
                /\ hp' = [hp EXCEPT ![p].pc = "decode",
                            ![p].pend = StringsFrees(SubSeq(g.blks, 1, n), g.blks[n + 1])]
     \/ /\ hp[p].op # "taglib_file_tags"
        /\ hp' = [hp EXCEPT ![p].pc = "cleanup", ![p].ci = 1]
        /\ UNCHANGED hheap
     \/ /\ hp' = [hp EXCEPT ![p].pc = "cleanup", ![p].ci = 1, ![p].panicking = TRUE]
        /\ UNCHANGED hheap
  /\ UNCHANGED <<disk, varsTags, varsSession, stk, mstk, varsCache, varsCodec, varsFile, varsMemory>>

\* free(): mstk.reset() locks mstk.mu and the export free is invoked, by
\* readString or readStrings for a result block, or by the cleanup of
\* stk.reset for the next tracked pointer
FreeBegin(p) ==
  /\ hp[p].sub = "none"
  /\ \/ hp[p].pc = "decode" /\ hp[p].pend # <<>>
     \/ hp[p].pc = "cleanup" /\ hp[p].ci <= Len(stk.ptrs)
  /\ CanLock(mstk.mu)
  /\ mstk' = [mu |-> p]
  /\ running' = running \cup {<<p, "free">>}
  /\ hp' = [hp EXCEPT ![p].sub = "free"]
  /\ UNCHANGED <<disk, varsTags, varsSession, stk, hheap, varsCache, varsCodec, varsFile, varsMemory>>

\* free() returns and mstk.mu is unlocked. A block freed at its address is
\* released. Freed at an address inside it, the allocator may leave the heap
\* as it is, may release some block, or the export traps and call panics
FreeEnd(p) ==
  /\ hp[p].sub = "free"
  /\ mstk' = [mu |-> Unlock(mstk.mu)]
  /\ running' = running \ {<<p, "free">>}
  /\ IF hp[p].pc = "decode"
     THEN LET t == Head(hp[p].pend)
              rest == Tail(hp[p].pend)
              next == [hp[p] EXCEPT !.sub = "none", !.pend = rest,
                                    !.pc = IF rest = <<>> THEN "cleanup" ELSE "decode",
                                    !.ci = 1]
          IN \/ /\ t.off = 0
                /\ hheap' = hheap \ {t.blk}
                /\ hp' = [hp EXCEPT ![p] = next]
             \/ /\ t.off # 0
                /\ \/ hheap' = hheap
                   \/ \E b \in hheap : hheap' = hheap \ {b}
                /\ hp' = [hp EXCEPT ![p] = next]
             \/ /\ t.off # 0
                /\ hheap' = hheap
                /\ hp' = [hp EXCEPT ![p] = [next EXCEPT !.panicking = TRUE]]
     ELSE /\ hheap' = hheap \ {stk.ptrs[hp[p].ci]}
          /\ hp' = [hp EXCEPT ![p].sub = "none", ![p].ci = @ + 1]
  /\ UNCHANGED <<disk, varsTags, varsSession, stk, varsCache, varsCodec, varsFile, varsMemory>>

\* the export free traps inside the cleanup of stk.reset: call panics in
\* free(), whose deferred cleanup unlocks mstk.mu; the panic leaves the loop
\* of the cleanup, stk.mu.Unlock() after the loop is not reached
FreePanics(p) ==
  /\ hp[p].sub = "free"
  /\ hp[p].pc = "cleanup"
  /\ mstk' = [mu |-> Unlock(mstk.mu)]
  /\ running' = running \ {<<p, "free">>}
  /\ hp' = [hp EXCEPT ![p] = [IdleProc EXCEPT !.pc = "panicked"]]
  /\ UNCHANGED <<disk, varsTags, varsSession, stk, hheap, varsCache, varsCodec, varsFile, varsMemory>>

\* the cleanup of stk.reset after its loop: stk.mu.Unlock(); the operation
\* returns, or the panic of call goes on to the caller
StkUnlock(p) ==
  /\ hp[p].pc = "cleanup"
  /\ hp[p].sub = "none"
  /\ hp[p].ci > Len(stk.ptrs)
  /\ stk' = [stk EXCEPT !.mu = Unlock(@)]
  /\ hp' = [hp EXCEPT ![p] = IF hp[p].panicking
                             THEN [IdleProc EXCEPT !.pc = "panicked"]
                             ELSE IdleProc]
  /\ UNCHANGED <<disk, varsTags, varsSession, mstk, hheap, running, varsCache, varsCodec, varsFile, varsMemory>>

InitHandle ==
  /\ disk = Disk0
  /\ InitTagsVars
  /\ IdleSession
  /\ IdleHandle
  /\ IdleCache
  /\ IdleMemory
  /\ IdleFile
  /\ IdleCodec

NextHandle ==
  \E p \in Procs :
    \/ StkReset(p)
    \/ MallocBegin(p)
    \/ MallocEnd(p)
    \/ WriteFails(p)
    \/ MallocPanics(p)
    \/ CallBegin(p)
    \/ CallEnd(p)
    \/ FreeBegin(p)
    \/ FreeEnd(p)
    \/ FreePanics(p)
    \/ StkUnlock(p)

SpecHandle == InitHandle /\ [][NextHandle]_vars

\* the steps of a goroutine that is inside an operation
Progress(p) ==
  \/ MallocBegin(p)
  \/ MallocEnd(p)
  \/ WriteFails(p)
  \/ MallocPanics(p)
  \/ CallBegin(p)
  \/ CallEnd(p)
  \/ FreeBegin(p)
  \/ FreeEnd(p)
  \/ FreePanics(p)
  \/ StkUnlock(p)

\* a goroutine inside an operation keeps running, a guest call that was
\* made returns or traps, and Lock on a mutex that stays free returns
SpecHandleFair == SpecHandle /\ \A p \in Procs : WF_vars(Progress(p))

---------------------------------------------------------------------------
(* Claims about the handle mode, checked under SpecHandle *)

\* the process is inside an operation: between stk.reset() and its cleanup
InOperation(p) == hp[p].pc \in {"args", "incall", "decode", "cleanup"}

\* C8: at most one export of the shared instance is in progress; it is
\* invoked by the holder of stk.mu; a process holds stk.mu from stk.reset()
\* through the mallocs of its arguments, the call, the frees of the decoded
\* result and the frees of the tracked pointers; and whenever stk.mu is not
\* held, every pointer the last operation tracked has been freed
C8_Serialized ==
  /\ Cardinality(running) <= 1
  /\ \A r \in running : stk.mu = r[1]
  /\ \A p \in Procs : InOperation(p) => stk.mu = p
  /\ \A p \in Procs : hp[p].sub # "none" => mstk.mu = p
  /\ stk.mu = 0 => \A j \in 1..Len(stk.ptrs) : stk.ptrs[j] \notin hheap

\* C8 witness: an operation that tracked two pointers has freed both and
\* still holds stk.mu, while another process has no operation running
C8_Witness ==
  \E p, q \in Procs :
    /\ p # q
    /\ hp[p].pc = "cleanup" /\ hp[p].ci > Len(stk.ptrs) /\ Len(stk.ptrs) = 2
    /\ stk.mu = p
    /\ hp[q].pc = "idle"

\* C26: the lock of mstk is held only by the holder of the lock of stk, so
\* it is never held while the lock of stk is requested; and a goroutine that
\* holds a lock releases it, also when its encoding or a guest call panics
C26_LocksReleased ==
  /\ [](\A p \in Procs : mstk.mu = p => stk.mu = p /\ hp[p].pc # "idle")
  /\ \A p \in Procs : (stk.mu = p) ~> (stk.mu # p)
  /\ \A p \in Procs : (mstk.mu = p) ~> (mstk.mu # p)

\* the order of the locks: mstk.mu is held only inside stk.mu, and released
LockOrder ==
  /\ [](\A p \in Procs : mstk.mu = p => stk.mu = p /\ hp[p].pc # "idle")
  /\ \A p \in Procs : (mstk.mu = p) ~> (mstk.mu # p)

\* stk.mu is released unless free has panicked inside the cleanup
ReleasedUnlessFreePanics ==
  \A p \in Procs : (stk.mu = p) ~> (stk.mu # p \/ hp[p].pc = "panicked")

\* a goroutine has panicked out of the cleanup with stk.mu locked, and
\* another is about to call stk.reset
StuckBehindPanic ==
  \E p, q \in Procs :
    /\ p # q
    /\ hp[p].pc = "panicked"
    /\ stk.mu = p
    /\ hp[q].pc = "idle"

\* C14: every address readStrings and readString hand to free is the
\* address of a block, the array at the pointer the export returned and
\* each row at its own, every block once
C14_DecodeFreesBlocks ==
  \A p \in Procs :
    hp[p].pc = "decode" =>
      /\ \A j \in 1..Len(hp[p].pend) : hp[p].pend[j].off = 0
      /\ \A j, k \in 1..Len(hp[p].pend) : j # k => hp[p].pend[j].blk # hp[p].pend[k].blk

\* the frame is over: the loop of the cleanup has ended, stk.mu.Unlock() is next
FrameEnds(p) == hp[p].pc = "cleanup" /\ hp[p].sub = "none" /\ hp[p].ci > Len(stk.ptrs)

\* the tracked pointers are blocks this frame allocated; none is freed
\* before the export has run and the result is decoded; the cleanup frees
\* them one after the other, each once
TrackedFreedOnce(p) ==
  /\ InOperation(p) => \A j \in 1..Len(stk.ptrs) : stk.ptrs[j] \in hp[p].alloc
  /\ hp[p].pc \in {"args", "incall", "decode"} => hp[p].alloc \subseteq hheap
  /\ hp[p].pc = "cleanup" =>
       \A j \in 1..Len(stk.ptrs) :
         /\ j < hp[p].ci => stk.ptrs[j] \notin hheap
         /\ j >= hp[p].ci => stk.ptrs[j] \in hheap

\* C15: every block allocated for the arguments of a frame is freed once,
\* after the export and before stk.mu is unlocked, however the frame ends,
\* and a frame frees no pointer of an earlier frame
C15_FrameFreed ==
  \A p \in Procs :
    /\ TrackedFreedOnce(p)
    /\ FrameEnds(p) => hp[p].alloc \cap hheap = {}

\* what holds of the frames whose arguments were all encoded, the frames
\* whose export panicked among them
EncodedFrameFreed ==
  \A p \in Procs :
    /\ TrackedFreedOnce(p)
    /\ FrameEnds(p) /\ hp[p].held = 0 => hp[p].alloc \cap hheap = {}

\* a frame of two tracked pointers whose export panicked has freed both
EncodedFrameFreedWitness ==
  \E p \in Procs :
    /\ FrameEnds(p)
    /\ hp[p].panicking /\ hp[p].held = 0
    /\ Len(stk.ptrs) = 2
    /\ hp[p].alloc \cap hheap = {}

\* some host paths, among them two that no call names
HostPaths == SessionPaths \cup {UnixPath(<<"etc", "passwd">>), UnixPath(<<"music", "c.ogg">>)}

\* the mounts show the guest the parent directory of the file, at the same
\* path with slashes, and no host path outside it
OnlyParentDir(mounts, file) ==
  /\ Cardinality(mounts) = 1
  /\ \A m \in mounts :
       /\ m.host = Dir(file)
       /\ m.guest = wasmPath(Dir(file))
  /\ \A h \in HostPaths :
       (\E m \in mounts : IsUnder(h, m.host)) => IsUnder(h, Dir(file))

\* C9: every session shows the guest only the parent directory of the file
\* operated on: the session of a call of the stateless API, and the shared
\* instance of LoadBinary for a file that taglib_file_new opens
C9_OneDirectory ==
  /\ \A p \in Procs :
       InSession(p) => OnlyParentDir(insts[sess[p]].mounts, call[p].path)
  /\ \A p \in Procs :
       hp[p].op = "taglib_file_new" => OnlyParentDir(LoadBinaryMounts, hp[p].path)

\* the sessions of the stateless API show only the parent directory
PerCallOneDirectory ==
  \A p \in Procs :
    InSession(p) => OnlyParentDir(insts[sess[p]].mounts, call[p].path)

---------------------------------------------------------------------------
(* The compilation cache over successive runs of a program *)

\* the cache directory of getRuntimeOnce as it was before: a fixed path,
\* filepath.Join(os.TempDir(), "go-taglib-wasm"), here the name 1
FixedCacheDir(t) == {1}

\* os.MkdirTemp("", "go-taglib-wasm"): a new directory, under a name that
\* no existing directory has
MkdirTemp(t) == {d \in DirNames : ~t[d].exists}

\* the directory when the cache is opened in it: MkdirTemp has created it
\* empty; a directory that exists is opened as it is
OpenedDir(t, d) == IF t[d].exists THEN t[d] ELSE EmptyDir

\* a process starts; it has not called the package yet. The binary it will
\* compile is the embedded one, or the one binaryPath names
StartRun ==
  /\ run.phase = "down"
  /\ run.n < MaxRuns
  /\ \E b \in Bins :
       run' = [run EXCEPT !.n = @ + 1, !.phase = "up", !.bin = b,
                          !.cacheDir = 0, !.hit = FALSE]
  /\ UNCHANGED <<disk, varsTags, varsSession, varsHandle, tmp, varsCodec, varsFile, varsMemory>>

\* the body of getRuntimeOnce up to NewCompilationCacheWithDir: the cache
\* directory is created and the cache opened in it; or MkdirTemp fails and
\* the body returns its error
OpenCache ==
  /\ run.phase = "up"
  /\ \/ \E d \in MkdirTemp(tmp) :
          /\ tmp' = [tmp EXCEPT ![d] = OpenedDir(tmp, d)]
          /\ run' = [run EXCEPT !.phase = "cache", !.cacheDir = d]
     \/ /\ run' = [run EXCEPT !.phase = "failed"]
        /\ UNCHANGED tmp
  /\ UNCHANGED <<disk, varsTags, varsSession, varsHandle, varsCodec, varsFile, varsMemory>>

\* runtime.CompileModule(ctx, bin): the translation of the binary is taken
\* from the cache if the directory holds it under the hash of the binary,
\* otherwise the binary is translated and the translation stored
CompileModule ==
  /\ run.phase = "cache"
  /\ run' = [run EXCEPT !.phase = "ready", !.hit = run.bin \in tmp[run.cacheDir].keys]
  /\ tmp' = [tmp EXCEPT ![run.cacheDir].keys = @ \cup {run.bin}]
  /\ UNCHANGED <<disk, varsTags, varsSession, varsHandle, varsCodec, varsFile, varsMemory>>

\* the process exits; nothing removes its cache directory
Exit ==
  /\ run.phase \in {"ready", "failed"}
  /\ run' = [run EXCEPT !.phase = "down",
                        !.prev = IF run.phase = "ready" THEN run.cacheDir ELSE @,
                        !.prevBin = IF run.phase = "ready" THEN run.bin ELSE @]
  /\ UNCHANGED <<disk, varsTags, varsSession, varsHandle, tmp, varsCodec, varsFile, varsMemory>>

InitCache ==
  /\ disk = Disk0
  /\ InitTagsVars
  /\ IdleSession
  /\ IdleHandle
  /\ IdleCache
  /\ IdleMemory
  /\ IdleFile
  /\ IdleCodec

NextCache ==
  \/ StartRun
  \/ OpenCache
  \/ CompileModule
  \/ Exit

SpecCache == InitCache /\ [][NextCache]_vars

---------------------------------------------------------------------------
(* Claims about the compilation cache, checked under SpecCache *)

\* C19: a run that follows a run which compiled opens the cache in the
\* directory that run populated, and finds there the translation of the
\* binary if it compiles the same binary
C19_CacheSurvives ==
  run.phase = "ready" /\ run.prev # 0 =>
    /\ run.cacheDir = run.prev
    /\ run.bin = run.prevBin => run.hit

\* every run opens its cache in a directory that did not exist, and
\* translates its binary anew
FreshCacheEachRun ==
  /\ run.phase = "cache" => tmp[run.cacheDir] = EmptyDir
  /\ run.phase = "ready" => ~run.hit /\ tmp[run.cacheDir].keys = {run.bin}
  /\ run.phase = "ready" /\ run.prev # 0 => run.cacheDir # run.prev

\* a second run has compiled the binary of the first
SecondRunSameBinary ==
  /\ run.phase = "ready"
  /\ run.n = 2
  /\ run.prev # 0
  /\ run.bin = run.prevBin
  /\ ~run.hit

---------------------------------------------------------------------------
(* The marshalling layer as functions: each action applies one function of *)
(* wazero.go or taglib.go to an input drawn from a small set               *)

\* the longest list of rows and of arguments handed to a function
MaxList == 3

\* rows as taglib_file_tags may return them and as it never does: with one
\* tab, with two, with no tab, empty, with an empty key, with an empty value
RowCases ==
  { <<"A", TAB, "x">>, <<"A", TAB, "y">>, <<"B", TAB, "x">>,
    <<"A">>, <<>>, <<TAB, "x">>, <<"A", TAB>>, <<"A", TAB, "x", TAB, "y">> }

\* the lists of at most n elements of S
ListsUpTo(S, n) == UNION {[1..k -> S] : k \in 0..n}

\* ReadTags from the decoded rows on: the map it returns
ApplyBuildTags ==
  /\ op = NoOp
  /\ \E rows \in ListsUpTo(RowCases, MaxList) :
       op' = [fn |-> "BuildTags", in |-> rows, out |-> BuildTags(NoProps, rows)]
  /\ UNCHANGED <<disk, varsTags, varsSession, varsHandle, varsCache, varsFile, varsMemory>>

\* the bytes of a parameter word, a uint64, lowest byte first
WordBytes == 8

\* the widths in bits of Go's int: 32 on 386, arm and wasm, 64 elsewhere
IntSizes == {32, 64}

\* uint64(a) of an unsigned a: the bytes of a, then zero bytes
ZeroExtend(bytes) ==
  [i \in 1..WordBytes |-> IF i <= Len(bytes) THEN bytes[i] ELSE 0]

\* uint64(a) of a signed a: the bytes of a, then copies of its sign
SignExtend(bytes) ==
  [i \in 1..WordBytes |->
     IF i <= Len(bytes) THEN bytes[i]
     ELSE IF bytes[Len(bytes)] >= 128 THEN 255 ELSE 0]

\* module.call, the cases bool, int, uint8, uint32, uint64 of its switch:
\* the parameter word appended for the argument
ParamWord(a) ==
  CASE a.type = "bool" -> IF a.val THEN ZeroExtend(<<1>>) ELSE ZeroExtend(<<0>>)
    [] a.type = "int" -> SignExtend(a.bytes)
    [] a.type \in {"uint8", "uint32"} -> ZeroExtend(a.bytes)
    [] a.type = "uint64" -> a.bytes

\* byte values, and values of four bytes, lowest byte first: zero, one, the
\* greatest positive and the least negative int32, all bits set
ByteCases == {0, 1, 128, 255}
QuadCases ==
  { <<0, 0, 0, 0>>, <<1, 0, 0, 0>>, <<255, 255, 255, 127>>, <<0, 0, 0, 128>>,
    <<255, 255, 255, 255>> }

\* the values of the types module.call takes as integers or booleans, as
\* the bytes of their two's complement representation
ScalarArgs ==
  {[type |-> "bool", val |-> v] : v \in BOOLEAN}
    \cup {[type |-> "uint8", bytes |-> <<b>>] : b \in ByteCases}
    \cup {[type |-> "uint32", bytes |-> q] : q \in [1..4 -> ByteCases]}
    \cup {[type |-> "uint64", bytes |-> lo \o hi] : lo \in QuadCases, hi \in QuadCases}
    \cup {[type |-> "int", bytes |-> q] : q \in {x \in [1..4 -> ByteCases] : 32 \in IntSizes}}
    \cup {[type |-> "int", bytes |-> lo \o hi] :
             lo \in {x \in QuadCases : 64 \in IntSizes}, hi \in QuadCases}

\* module.call appends the word of one integer or boolean argument
ApplyParamWord ==
  /\ op = NoOp
  /\ \E a \in ScalarArgs : op' = [fn |-> "ParamWord", in |-> a, out |-> ParamWord(a)]
  /\ UNCHANGED <<disk, varsTags, varsSession, varsHandle, varsCache, varsFile, varsMemory>>

\* arguments of module.call: scalars, a string, lists of strings, and
\* values of types its switch has no case for
ArgCases ==
  { [type |-> "uint8", bytes |-> <<2>>],
    [type |-> "bool", val |-> TRUE],
    [type |-> "string", val |-> <<"/", "a">>],
    [type |-> "[]string", val |-> <<>>],
    [type |-> "[]string", val |-> << <<"A", TAB, "x">> >>],
    [type |-> "float64"],
    [type |-> "[]byte"] }

\* the state of the loop over args: the error, the words appended to
\* params, the exports of the guest invoked so far
NoParams == [err |-> ErrNil, params |-> <<>>, invoked |-> <<>>]

\* a default case that goes on to the next argument
SkipUnknownArg(acc) == acc

\* default: return fmt.Errorf("unknown argument type %T", a)
UnknownArg(acc) == [acc EXCEPT !.err = "unknown argument type"]

\* case string, case []string: makeString or makeStrings invoke the export
\* malloc once per block; the first malloc fails unless mallocOk, and the
\* word is the pointer returned, here the number of the block
PointerArg(acc, a, mallocOk) ==
  LET blocks == IF a.type = "string" THEN 1 ELSE Len(a.val) + 1
  IN IF mallocOk
     THEN [acc EXCEPT !.invoked = @ \o [j \in 1..blocks |-> "malloc"],
                      !.params = Append(@, ZeroExtend(<<Len(acc.invoked) + 1>>))]
     ELSE [acc EXCEPT !.invoked = Append(@, "malloc"),
                      !.err = IF a.type = "string" THEN "making argument string"
                              ELSE "making argument strings"]

\* module.call: the loop over args up to its first return
RECURSIVE EncodeArgs(_, _, _)
EncodeArgs(acc, args, mallocOk) ==
  IF acc.err # ErrNil \/ Len(args) = 0 THEN acc
  ELSE LET a == Head(args)
           next == IF a.type \in {"bool", "int", "uint8", "uint32", "uint64"}
                   THEN [acc EXCEPT !.params = Append(@, ParamWord(a))]
                   ELSE IF a.type \in {"string", "[]string"}
                   THEN PointerArg(acc, a, mallocOk)
                   ELSE UnknownArg(acc)
       IN EncodeArgs(next, Tail(args), mallocOk)

\* module.call(name, dest, args...) up to the return of the export: the
\* export is invoked with the words of the arguments if the loop returned
\* no error
CallExport(name, args, mallocOk) ==
  LET e == EncodeArgs(NoParams, args, mallocOk)
  IN IF e.err # ErrNil THEN e ELSE [e EXCEPT !.invoked = Append(@, name)]

\* module.call is applied to a list of arguments
ApplyCall ==
  /\ op = NoOp
  /\ \E args \in ListsUpTo(ArgCases, MaxList), mallocOk \in BOOLEAN,
        name \in {"taglib_file_write_tags"} :
       op' = [fn |-> "call", in |-> [name |-> name, args |-> args],
              out |-> CallExport(name, args, mallocOk)]
  /\ UNCHANGED <<disk, varsTags, varsSession, varsHandle, varsCache, varsFile, varsMemory>>

\* the function has returned; the next one is applied to a new input
Returned ==
  /\ op # NoOp
  /\ op' = NoOp
  /\ UNCHANGED <<disk, varsTags, varsSession, varsHandle, varsCache, varsFile, varsMemory>>

InitCodec ==
  /\ disk = Disk0
  /\ InitTagsVars
  /\ IdleSession
  /\ IdleHandle
  /\ IdleCache
  /\ IdleMemory
  /\ IdleFile
  /\ IdleCodec

NextCodec ==
  \/ ApplyBuildTags
  \/ ApplyParamWord
  \/ ApplyCall
  \/ Returned

SpecCodec == InitCodec /\ [][NextCodec]_vars

---------------------------------------------------------------------------
(* Claims about the marshalling functions, checked under SpecCodec *)

\* the row has a tab
HasTab(row) == \E i \in 1..Len(row) : row[i] = TAB

\* the part of a row before its first tab, and the part after it
KeyOfRow(row) == SubSeq(row, 1, Find(row, TAB))
ValueOfRow(row) == SubSeq(row, Find(row, TAB) + 2, Len(row))

\* the values of the rows that have a tab and the key k, in row order
RECURSIVE ValuesOfKey(_, _)
ValuesOfKey(rows, k) ==
  IF Len(rows) = 0 THEN <<>>
  ELSE (IF HasTab(Head(rows)) /\ KeyOfRow(Head(rows)) = k
        THEN <<ValueOfRow(Head(rows))>> ELSE <<>>) \o ValuesOfKey(Tail(rows), k)

\* C29: the map ReadTags builds has exactly the keys before the first tab
\* of the rows that have a tab; under each key the parts after the first
\* tab of its rows, in row order; and no key has an empty list
C29_TagsFromRows ==
  op.fn = "BuildTags" =>
    /\ DOMAIN op.out = {KeyOfRow(op.in[i]) : i \in {j \in 1..Len(op.in) : HasTab(op.in[j])}}
    /\ \A k \in DOMAIN op.out :
         /\ op.out[k] = ValuesOfKey(op.in, k)
         /\ Len(op.out[k]) >= 1

\* C29 witness: a row without a tab between two rows of one key, the second
\* with two tabs: the map has the one key with both values
C29_Witness ==
  /\ op.fn = "BuildTags"
  /\ op.in = << <<"A", TAB, "y">>, <<"A">>, <<"A", TAB, "x", TAB, "y">> >>
  /\ op.out = [k \in {<<"A">>} |-> << <<"y">>, <<"x", TAB, "y">> >>]

\* C25: the word of an integer argument has the bytes of the argument and
\* zero bytes above its width; the word of a boolean is 0 or 1
C25_ZeroExtended ==
  op.fn = "ParamWord" =>
    IF op.in.type = "bool"
    THEN op.out = [i \in 1..WordBytes |-> IF i = 1 /\ op.in.val THEN 1 ELSE 0]
    ELSE /\ \A i \in 1..Len(op.in.bytes) : op.out[i] = op.in.bytes[i]
         /\ \A i \in (Len(op.in.bytes) + 1)..WordBytes : op.out[i] = 0

\* what holds: the words of booleans, of the unsigned types, of an int of
\* 64 bits and of an int of 32 bits that is not negative
UnsignedZeroExtended ==
  (op.fn = "ParamWord" /\ op.in.type = "int" =>
     Len(op.in.bytes) = WordBytes \/ op.in.bytes[Len(op.in.bytes)] < 128)
    => C25_ZeroExtended

\* a uint32 with all bits set has become a word with four zero bytes on top
UnsignedZeroExtendedWitness ==
  /\ op.fn = "ParamWord"
  /\ op.in = [type |-> "uint32", bytes |-> <<255, 255, 255, 255>>]
  /\ op.out = <<255, 255, 255, 255, 0, 0, 0, 0>>

\* the types module.call has a case for
ArgTypes == {"bool", "int", "uint8", "uint32", "uint64", "string", "[]string"}

\* C30: a call with an argument of a type module.call has no case for
\* returns an error and has not invoked the export it names
C30_UnknownArgument ==
  op.fn = "call" /\ (\E i \in 1..Len(op.in.args) : op.in.args[i].type \notin ArgTypes) =>
    /\ op.out.err # ErrNil
    /\ \A j \in 1..Len(op.out.invoked) : op.out.invoked[j] # op.in.name

\* C30 witness: the unsupported argument is the last of three; the string
\* before it has been allocated in the guest, the export has not run
C30_Witness ==
  /\ op.fn = "call"
  /\ Len(op.in.args) = 3
  /\ op.in.args[2].type = "string"
  /\ op.in.args[3].type = "float64"
  /\ op.out.err = "unknown argument type"
  /\ op.out.invoked = <<"malloc">>

\* a call whose arguments are all of supported types and whose mallocs
\* succeed invokes its export, once and last
SupportedArgsInvoke ==
  op.fn = "call" /\ op.out.err = ErrNil =>
    /\ \A i \in 1..Len(op.in.args) : op.in.args[i].type \in ArgTypes
    /\ Len(op.out.params) = Len(op.in.args)
    /\ op.out.invoked[Len(op.out.invoked)] = op.in.name

---------------------------------------------------------------------------
(* The handle mode: New and File.Close, one wrapper call per step *)

\* taglib_file_new: new TagLib::FileRef(filename), an object also when the
\* file is not one TagLib can read; FileRef::isNull() tells
FileRefNew(file) == [state |-> "live", null |-> ~file.valid, deletes |-> 0]

\* taglib_file_is_valid
FileRefValid(ref) == ~ref.null

\* taglib_file_free: delete of the FileRef
FileRefFree(ref) == [ref EXCEPT !.state = "deleted", !.deletes = @ + 1]

\* New up to f := taglibFileNew(path): the guest allocates a FileRef at an
\* address it has not used and returns the address
TaglibFileNew(p) ==
  /\ fl[p].pc = "idle"
  /\ \E path \in ApiPaths, h \in FileRefs :
       /\ gfiles[h].state = "none"
       /\ \A g \in 1..(h - 1) : gfiles[g].state # "none"
       /\ gfiles' = [gfiles EXCEPT ![h] = FileRefNew(disk[path])]
       /\ fl' = [fl EXCEPT ![p] = [NoFile EXCEPT !.pc = "new", !.made = h]]
  /\ UNCHANGED <<disk, varsTags, varsSession, varsHandle, varsCache, varsCodec, varsMemory>>

\* New from taglibFileValid(f) to its return: File{}, ErrInvalidFile for a
\* null FileRef, else the File with ptr f
TaglibFileValid(p) ==
  /\ fl[p].pc = "new"
  /\ fl' = [fl EXCEPT ![p] =
              IF FileRefValid(gfiles[fl[p].made])
              THEN [@ EXCEPT !.pc = "open", !.ptr = fl[p].made, !.err = ErrNil]
              ELSE [@ EXCEPT !.pc = "returned", !.err = ErrInvalidFile]]
  /\ UNCHANGED <<disk, varsTags, varsSession, varsHandle, varsCache, varsCodec, gfiles, varsMemory>>

\* File.Close: taglibFileFree(f.ptr). File is a value without a closed
\* flag, so Close runs on a File that was closed before as well
TaglibFileFree(p) ==
  /\ fl[p].pc \in {"open", "closed"}
  /\ gfiles[fl[p].ptr].deletes < MaxDeletes
  /\ gfiles' = [gfiles EXCEPT ![fl[p].ptr] = FileRefFree(@)]
  /\ fl' = [fl EXCEPT ![p].pc = "closed"]
  /\ UNCHANGED <<disk, varsTags, varsSession, varsHandle, varsCache, varsCodec, varsMemory>>

\* the caller lets go of what New returned
DropFile(p) ==
  /\ fl[p].pc \in {"returned", "closed"}
  /\ fl' = [fl EXCEPT ![p] = NoFile]
  /\ UNCHANGED <<disk, varsTags, varsSession, varsHandle, varsCache, varsCodec, gfiles, varsMemory>>

InitFile ==
  /\ disk = DiskApi
  /\ InitTagsVars
  /\ IdleSession
  /\ IdleHandle
  /\ IdleCache
  /\ IdleMemory
  /\ IdleCodec
  /\ IdleFile

NextFile ==
  \E p \in Procs :
    \/ TaglibFileNew(p)
    \/ TaglibFileValid(p)
    \/ TaglibFileFree(p)
    \/ DropFile(p)

SpecFile == InitFile /\ [][NextFile]_vars

---------------------------------------------------------------------------
(* Claims about New and File.Close, checked under SpecFile *)

\* C27: when New has returned ErrInvalidFile, the FileRef it created with
\* taglib_file_new has been released with taglib_file_free; and no FileRef
\* created by New is passed to taglib_file_free more than once
C27_HandleReleased ==
  /\ \A p \in Procs :
       fl[p].err = ErrInvalidFile => gfiles[fl[p].made].state = "deleted"
  /\ \A h \in FileRefs : gfiles[h].deletes <= 1

\* New itself never calls taglib_file_free: until Close runs on the File,
\* the FileRef New created is live, whatever New returned
NewFreesNothing ==
  \A p \in Procs :
    fl[p].pc \in {"new", "open", "returned"} =>
      /\ gfiles[fl[p].made].state = "live"
      /\ gfiles[fl[p].made].deletes = 0

\* New has returned ErrInvalidFile
NewFreesNothingWitness ==
  \E p \in Procs : fl[p].pc = "returned" /\ fl[p].err = ErrInvalidFile

---------------------------------------------------------------------------
(* The decoders and encoders of module on a linear memory, loop by loop *)

\* the address of byte number n of a small memory
FromInt(n) == <<n \div Window, n % Window>>

\* n bytes of text, none of them zero, no two neighbours equal
Text(n) == [i \in 1..n |-> (i % 255) + 1]

\* Memory().Write(a, bytes)
PutBytes(mem, a, bytes) ==
  LET at(i) == AddBytes(a, i - 1)
      new == {at(i) : i \in 1..Len(bytes)}
  IN [mem EXCEPT !.cells =
        [x \in (DOMAIN mem.cells) \cup new |->
           IF x \in new THEN bytes[CHOOSE i \in 1..Len(bytes) : at(i) = x]
           ELSE mem.cells[x]]]

\* the bytes of memory from a up to end
BytesFrom(mem, a, end) ==
  LET n == (end[1] - a[1]) * Window + end[2] - a[2]
  IN [i \in 1..n |-> ByteAt(mem, AddBytes(a, i - 1))]

\* the lengths of the strings decoded: shorter than the window, as long as
\* the window with and without the terminator, longer, and several windows
StringLens == {0, 3, 63, 64, 65, 127, 128, 200}

\* an address in the low part of the memory, not aligned
LowAddr == <<16, 5>>

\* the address at which a string of n bytes ends, with its terminator, at
\* the last byte of the small memory
AtEnd(n) == FromInt(Window * MemWindows - (n + 1))

\* a small memory whose other bytes are zero or are not
SmallMemory(fill) == [size |-> MemWindows, fill |-> fill, cells |-> <<>>]

\* a memory of 4 GiB without a zero byte
FullMemory == [size |-> Windows, fill |-> 255, cells |-> <<>>]

\* the inputs of readString: a terminated string inside a small memory, low
\* or at its end; and memories without a terminator after ptr
StringCases ==
  {[mem |-> PutBytes(SmallMemory(fill), a, Text(n) \o <<0>>), ptr |-> a, src |-> Text(n)] :
     fill \in {0, 255}, n \in StringLens, a \in {LowAddr}}
  \cup {[mem |-> PutBytes(SmallMemory(fill), AtEnd(n), Text(n) \o <<0>>), ptr |-> AtEnd(n),
         src |-> Text(n)] : fill \in {0, 255}, n \in StringLens}
  \cup {[mem |-> SmallMemory(255), ptr |-> LowAddr, src |-> <<>>]}
  \cup {[mem |-> FullMemory, ptr |-> a, src |-> <<>>] :
          a \in {LowAddr, <<Windows \div 2, 0>>, <<Windows - 1, 0>>}}

\* readString returns: to its caller, or into the loop of readStrings,
\* which appends the string and does ptr += 4, or returns the error
ReturnString(d, err, segs) ==
  IF d.fn = "readString"
  THEN [d EXCEPT !.pc = "done", !.err = err, !.str = segs, !.buf = <<>>]
  ELSE IF err = "none"
       THEN [d EXCEPT !.pc = "slot", !.strs = Append(@, segs), !.buf = <<>>,
                      !.sptr = AddBytes(@, 4)]
       ELSE [d EXCEPT !.pc = "done", !.err = "reading string from array",
                      !.strs = <<>>, !.nil = TRUE, !.buf = <<>>]

\* a decoder that reads the chunk after the next one
NextChunkSkips(ptr, size) == AddWindows(ptr, size + size)

\* ptr+size, where the next chunk is read
NextChunk(ptr, size) == AddWindows(ptr, size)

\* buf = append(buf, next...), next the n windows read at a
AppendChunk(buf, a, n) ==
  IF n = 0 THEN buf ELSE Append(buf, [from |-> a, to |-> EndOf(a, n)])

\* size += size in uint32
Double(n) == (n + n) % Windows

\* readString(ptr) is called on a memory
StartReadString ==
  /\ dec.pc = "idle"
  /\ \E c \in StringCases :
       /\ gm' = c.mem
       /\ dec' = [IdleDec EXCEPT !.fn = "readString", !.pc = "first",
                                 !.ptr = c.ptr, !.src = c.src]
  /\ UNCHANGED <<disk, varsTags, varsSession, varsHandle, varsCache, varsCodec, varsFile>>

\* readString up to its loop: the first window is read and searched
ReadFirst ==
  /\ dec.pc = "first"
  /\ IF ~HasSize(gm, dec.ptr, 1, 0)
     THEN dec' = ReturnString(dec, "memory error while reading string", <<>>)
     ELSE LET i == IndexByte(gm, dec.ptr, 1)
          IN IF i.found
             THEN dec' = ReturnString(dec, "none", <<[from |-> dec.ptr, to |-> i.at]>>)
             ELSE dec' = [dec EXCEPT !.pc = "loop", !.size = 1,
                                     !.buf = AppendChunk(<<>>, dec.ptr, 1)]
  /\ UNCHANGED <<disk, varsTags, varsSession, varsHandle, varsCache, varsCodec, varsFile, gm>>

\* one turn of the loop of readString
ReadNext ==
  /\ dec.pc = "loop"
  /\ LET at == NextChunk(dec.ptr, dec.size)
     IN IF ~HasSize(gm, at, dec.size, 0)
        THEN dec' = ReturnString(dec, "memory error while reading byte", <<>>)
        ELSE LET i == IndexByte(gm, at, dec.size)
             IN IF i.found
                THEN dec' = ReturnString(dec, "none",
                                         Append(dec.buf, [from |-> at, to |-> i.at]))
                ELSE dec' = [dec EXCEPT !.buf = AppendChunk(@, at, dec.size),
                                        !.size = Double(@)]
  /\ UNCHANGED <<disk, varsTags, varsSession, varsHandle, varsCache, varsCodec, varsFile, gm>>

\* the four bytes of a pointer, lowest byte first
WordOf(ptr) ==
  <<(ptr[1] % 4) * Window + ptr[2], (ptr[1] \div 4) % 256,
    (ptr[1] \div 1024) % 256, ptr[1] \div 262144>>

\* the pointer four bytes are, lowest byte first
PtrOf(b) == <<(b[1] \div Window) + 4 * b[2] + 1024 * b[3] + 262144 * b[4], b[1] % Window>>

\* Memory().ReadUint32Le(a)
ReadPointer(mem, a) ==
  PtrOf([i \in 1..4 |-> ByteAt(mem, AddBytes(a, i - 1))])

\* Memory().WriteUint32Le(a, ptr)
WritePointer(mem, a, ptr) == PutBytes(mem, a, WordOf(ptr))

\* the sizes makeStrings asks malloc for: (len(s)+1)*4 for the slots, then
\* len(b) for every string with its terminator
BlockSizes(s) == <<(Len(s) + 1) * 4>> \o [i \in 1..Len(s) |-> Len(s[i]) + 1]

RECURSIVE SumOf(_)
SumOf(ns) == IF ns = <<>> THEN 0 ELSE Head(ns) + SumOf(Tail(ns))

\* blocks of these sizes one after the other from a on, each rounded up to
\* a multiple of pad
RECURSIVE Place(_, _, _)
Place(a, sizes, pad) ==
  IF sizes = <<>> THEN <<>>
  ELSE <<a>> \o Place(AddBytes(a, ((Head(sizes) + pad - 1) \div pad) * pad), Tail(sizes), pad)

\* where the guest's malloc puts the blocks: in the low part of the memory,
\* aligned; or so that the last block ends where the small memory ends
Placements(sizes) ==
  {Place(<<16, 0>>, sizes, 8),
   Place(FromInt(Window * MemWindows - SumOf(sizes)), sizes, 1)}

\* the loop of makeStrings for the first k strings: each is written with
\* its terminator into its block and its address into its slot
RECURSIVE WriteElems(_, _, _, _)
WriteElems(mem, s, blks, k) ==
  IF k = 0 THEN mem
  ELSE WritePointer(PutBytes(WriteElems(mem, s, blks, k - 1), blks[k + 1], s[k] \o <<0>>),
                    AddBytes(blks[1], 4 * (k - 1)), blks[k + 1])

\* WriteUint32Le(arrayPtr+uint32(len(s)*4), 0)
WriteSentinel(mem, a) == WritePointer(mem, a, Null)

\* the strings encoded: empty, shorter than the window, as long as it
ElemCases == {<<>>, Text(3), Text(Window)}

\* makeStrings(s): every malloc returns a block and the array is written;
\* or malloc number k fails, after the strings before it were written, and
\* makeStrings returns 0 and the error
MakeStrings ==
  /\ dec.pc = "idle"
  /\ \E s \in ListsUpTo(ElemCases, MaxList), fill \in {0, 255} :
       \E blks \in Placements(BlockSizes(s)), k \in 0..(Len(s) + 1) :
         IF k = Len(s) + 1
         THEN /\ gm' = WriteSentinel(WriteElems(SmallMemory(fill), s, blks, Len(s)),
                                     AddBytes(blks[1], 4 * Len(s)))
              /\ dec' = [IdleDec EXCEPT !.fn = "makeStrings", !.pc = "made", !.src = s,
                                        !.base = blks[1], !.blks = blks]
         ELSE /\ gm' = WriteElems(SmallMemory(fill), s, blks, IF k = 0 THEN 0 ELSE k - 1)
              /\ dec' = [IdleDec EXCEPT !.fn = "makeStrings", !.pc = "done", !.src = s,
                                        !.blks = SubSeq(blks, 1, k),
                                        !.err = "malloc error"]
  /\ UNCHANGED <<disk, varsTags, varsSession, varsHandle, varsCache, varsCodec, varsFile>>

\* readStrings is called on the pointer makeStrings returned
StartReadStrings ==
  /\ dec.pc = "made"
  /\ dec' = [dec EXCEPT !.pc = "slot", !.sptr = dec.base, !.nil = FALSE]
  /\ UNCHANGED <<disk, varsTags, varsSession, varsHandle, varsCache, varsCodec, varsFile, gm>>

\* the bytes of the rows "A\tx", "A\ty", "B" and ""
RowTexts == {<<65, 9, 120>>, <<65, 9, 121>>, <<66>>, <<>>}

\* the array taglib_file_tags returns for these rows, in a zeroed memory
GuestArray(rows) ==
  LET blks == Place(<<16, 0>>, BlockSizes(rows), 8)
  IN [mem |-> WriteSentinel(WriteElems(SmallMemory(0), rows, blks, Len(rows)),
                            AddBytes(blks[1], 4 * Len(rows))),
      result |-> blks[1], rows |-> rows]

\* two slots at the end of the memory that point to a string, and no
\* slot with zero after them
NoSentinel ==
  LET a == FromInt(Window * MemWindows - 8)
      m == PutBytes(SmallMemory(0), LowAddr, Text(3) \o <<0>>)
  IN [mem |-> WritePointer(WritePointer(m, a, LowAddr), AddBytes(a, 4), LowAddr),
      result |-> a, rows |-> <<Text(3), Text(3)>>]

\* what the export taglib_file_tags leaves for module.call: a zero pointer;
\* an array of rows with its sentinel; memories without a zero slot
CallCases ==
  {[mem |-> ZeroPage, result |-> Null, rows |-> <<>>]}
  \cup {GuestArray(rows) : rows \in ListsUpTo(RowTexts, MaxList)}
  \cup {NoSentinel, [mem |-> SmallMemory(255), result |-> LowAddr, rows |-> <<>>]}

\* a call that decodes every result
ResultNeverZero(result) == FALSE

\* module.call, case *[]string: result != 0 fails
ResultIsZero(result) == result = Null

\* module.call with dest *[]string after the export returned: a zero result
\* leaves dest as it is, nil; any other is given to readStrings, which
\* starts with strs := []string{}
CallDecode ==
  /\ dec.pc = "idle"
  /\ \E c \in CallCases :
       /\ gm' = c.mem
       /\ dec' = IF ResultIsZero(c.result)
                 THEN [IdleDec EXCEPT !.fn = "call", !.pc = "done", !.src = c.rows]
                 ELSE [IdleDec EXCEPT !.fn = "call", !.pc = "slot", !.src = c.rows,
                                      !.base = c.result, !.sptr = c.result,
                                      !.nil = FALSE]
  /\ UNCHANGED <<disk, varsTags, varsSession, varsHandle, varsCache, varsCodec, varsFile>>

\* one turn of the loop of readStrings up to the call of readString
ReadSlot ==
  /\ dec.pc = "slot"
  /\ IF ~HasSize(gm, dec.sptr, 0, 4)
     THEN dec' = [dec EXCEPT !.pc = "done", !.strs = <<>>, !.nil = TRUE,
                             !.err = "memory error while reading string length"]
     ELSE LET stringPtr == ReadPointer(gm, dec.sptr)
          IN IF stringPtr = Null
             THEN dec' = [dec EXCEPT !.pc = "done"]
             ELSE dec' = [dec EXCEPT !.pc = "first", !.ptr = stringPtr, !.size = 0]
  /\ UNCHANGED <<disk, varsTags, varsSession, varsHandle, varsCache, varsCodec, varsFile, gm>>

\* the caller has the result
Decoded ==
  /\ dec.pc = "done"
  /\ dec' = IdleDec
  /\ gm' = ZeroPage
  /\ UNCHANGED <<disk, varsTags, varsSession, varsHandle, varsCache, varsCodec, varsFile>>

InitMemory ==
  /\ disk = Disk0
  /\ InitTagsVars
  /\ IdleSession
  /\ IdleHandle
  /\ IdleCache
  /\ IdleCodec
  /\ IdleFile
  /\ IdleMemory

NextMemory ==
  \/ StartReadString
  \/ MakeStrings
  \/ StartReadStrings
  \/ CallDecode
  \/ ReadSlot
  \/ ReadFirst
  \/ ReadNext
  \/ Decoded

SpecMemory == InitMemory /\ [][NextMemory]_vars

\* a decoder that was called runs its loops on
SpecMemoryFair == SpecMemory /\ WF_vars(ReadSlot \/ ReadFirst \/ ReadNext)

---------------------------------------------------------------------------
(* Claims about the decoders and encoders, checked under SpecMemory *)

\* the end of the memory
MemoryEnd(mem) == <<mem.size, 0>>

\* the terminator of the string at a: the first zero byte from a on that is
\* inside the memory
Terminator(mem, a) == IndexByteUpTo(mem, a, MemoryEnd(mem))

\* the chunks are the bytes from a up to b, each once and in order
Chained(segs, a, b) ==
  /\ segs # <<>>
  /\ segs[1].from = a
  /\ segs[Len(segs)].to = b
  /\ \A i \in 1..(Len(segs) - 1) : segs[i].to = segs[i + 1].from

\* string(buf): the bytes of the chunks
RECURSIVE BytesOf(_, _)
BytesOf(mem, segs) ==
  IF segs = <<>> THEN <<>>
  ELSE BytesFrom(mem, segs[1].from, segs[1].to) \o BytesOf(mem, Tail(segs))

\* C21: for every terminated string that lies inside the memory from ptr
\* on, readString(ptr) returns the bytes from ptr up to its terminator, read
\* in chunks that follow one another, whatever the length of the string
C21_ByteExact ==
  (dec.fn = "readString" /\ dec.pc = "done" /\ Terminator(gm, dec.ptr).found)
    => /\ dec.err = "none"
       /\ Chained(dec.str, dec.ptr, Terminator(gm, dec.ptr).at)
       /\ BytesOf(gm, dec.str) = dec.src

\* whenever readString returns a string, it is the bytes from ptr up to
\* the terminator
DecodedStringExact ==
  (dec.fn = "readString" /\ dec.pc = "done" /\ dec.err = "none")
    => /\ Terminator(gm, dec.ptr).found
       /\ Chained(dec.str, dec.ptr, Terminator(gm, dec.ptr).at)
       /\ BytesOf(gm, dec.str) = dec.src

\* a string of 200 bytes was decoded from three chunks
DecodedStringExactWitness ==
  /\ dec.fn = "readString"
  /\ dec.pc = "done"
  /\ dec.err = "none"
  /\ Len(dec.src) = 200
  /\ Len(dec.str) = 3

\* a terminated string inside the memory was not decoded
StringAtEndOfMemory ==
  /\ dec.fn = "readString"
  /\ dec.pc = "done"
  /\ Terminator(gm, dec.ptr).found
  /\ dec.err # "none"

\* the strings a list of chunk lists is
StringsOf(mem, strs) == [i \in 1..Len(strs) |-> BytesOf(mem, strs[i])]

\* slot number i of the array at a, counted from 0
SlotAt(mem, a, i) == ReadPointer(mem, AddBytes(a, 4 * i))

\* the array makeStrings returned: one block of slots and one block per
\* string; slot i holds the address, not 0, of the block of s[i], which
\* holds its bytes and then a zero byte; the slot after the last holds 0
ArrayLayout ==
  (dec.fn = "makeStrings" /\ dec.base # Null) =>
    LET s == dec.src
        n == Len(s)
    IN /\ Len(dec.blks) = n + 1
       /\ dec.base = dec.blks[1]
       /\ \A i \in 1..n :
            LET p == SlotAt(gm, dec.base, i - 1)
            IN /\ p # Null
               /\ p = dec.blks[i + 1]
               /\ BytesFrom(gm, p, AddBytes(p, Len(s[i]) + 1)) = s[i] \o <<0>>
       /\ SlotAt(gm, dec.base, n) = Null

\* C22: makeStrings(s) lays the list out as one block of slots and one
\* block per string, slot n zero; and readStrings of the pointer it returned
\* yields s again, also for the empty list and for empty strings
C22_ListRoundTrip ==
  /\ ArrayLayout
  /\ (dec.fn = "makeStrings" /\ dec.pc = "done" /\ dec.base # Null)
       => /\ dec.err = "none"
          /\ ~dec.nil
          /\ StringsOf(gm, dec.strs) = dec.src

\* whenever readStrings returns a list for the array makeStrings wrote, it
\* is the list that was encoded
RoundTripWhenDecoded ==
  (dec.fn = "makeStrings" /\ dec.pc = "done" /\ dec.base # Null /\ dec.err = "none")
    => /\ ~dec.nil
       /\ StringsOf(gm, dec.strs) = dec.src

\* a list of three strings, the second empty, was encoded and decoded
RoundTripWhenDecodedWitness ==
  /\ dec.fn = "makeStrings"
  /\ dec.pc = "done"
  /\ dec.err = "none"
  /\ Len(dec.src) = 3
  /\ dec.src[2] = <<>>
  /\ Len(dec.src[3]) = Window

\* string(b) for the rows of ReadTags: the tab, and any other byte
CharOf(b) == IF b = 9 THEN TAB ELSE ToString(b)
RowOf(bytes) == [i \in 1..Len(bytes) |-> CharOf(bytes[i])]

\* what ReadTags returns after mod.call has decoded the result
ReadTagsReturn(mem, d) ==
  IF d.err # "none" THEN [err |-> ErrCall, out |-> NoProps]
  ELSE TagsFromRaw([null |-> d.nil,
                    rows |-> [i \in 1..Len(d.strs) |-> RowOf(BytesOf(mem, d.strs[i]))]])

\* the slots of the array at a before the first that is zero or that is
\* outside the memory
RECURSIVE SlotsBefore(_, _)
SlotsBefore(mem, a) ==
  IF ~HasSize(mem, a, 0, 4) THEN 0
  ELSE IF ReadPointer(mem, a) = Null THEN 0
  ELSE 1 + SlotsBefore(mem, AddBytes(a, 4))

\* the string at p: the bytes up to its terminator
StringAt(mem, p) == BytesFrom(mem, p, Terminator(mem, p).at)

C23_WitnessEmpty ==
  /\ dec.fn = "call"
  /\ dec.pc = "done"
  /\ dec.base # Null
  /\ SlotAt(gm, dec.base, 0) = Null

\* the export returned an array of three rows, which became two keys
C23_WitnessRows ==
  /\ dec.fn = "call"
  /\ dec.pc = "done"
  /\ Len(dec.strs) = 3
  /\ Cardinality(DOMAIN ReadTagsReturn(gm, dec).out) = 1
  /\ Len(dec.src[3]) = 1

\* the decoder is in one of its loops
Decoding == dec.pc \in {"slot", "first", "loop"}

\* C28: readString and readStrings return, a value or a memory error,
\* whatever the memory holds
C28_Terminates == Decoding ~> (dec.pc = "done")

\* in a memory smaller than the address space the decoders return
TerminatesBelowFullMemory ==
  (Decoding /\ gm.size < Windows) ~> (dec.pc = "done")

\* readString is in its loop with size 0
LoopWithoutWindow ==
  /\ dec.pc = "loop"
  /\ dec.size = 0

====
